---------------------------- MODULE Spec2Model ----------------------------
(***************************************************************************)
(* A model of the non-membership core of eigerco/zair: nullifier orders,   *)
(* Orchard canonicalisation, the user mapping (binary search and fused     *)
(* walk), the gap-tree builders, their witnesses and the dense tree's      *)
(* serialisation, partition_by_pool, the nullifier files (write, read and  *)
(* the streaming and the legacy file source), airdrop_claim and its proof  *)
(* generation, build_airdrop_configuration (as a whole and task by task),  *)
(* the hex encodings of the claim bundle, and the command-line parsers of  *)
(* the Sapling personalization.                                            *)
(*                                                                         *)
(* Scaling.  A nullifier is NULLIFIER_SIZE bytes (32 in the source), each  *)
(* byte in 0..255.  The Pallas base-field modulus keeps its shape: its     *)
(* little-endian representation has low byte 0x01 and top byte 0x40.  The  *)
(* tree depth NON_MEMBERSHIP_TREE_DEPTH is 32 in the source.  Hashes are   *)
(* modelled as injective constructors (collision-free).                    *)
(***************************************************************************)
EXTENDS Integers, Sequences, FiniteSets, TLC

\* ------------------------------------------------------------------ bounds
\* Bytes per nullifier (32 in the source).
NULLIFIER_SIZE == 2
\* Depth of the gap tree (32 in the source).
NON_MEMBERSHIP_TREE_DEPTH == 2
\* Longest raw chain nullifier list drawn as input.
MaxChain == 2
\* Largest user nullifier list drawn as input.
MaxUser == 2

\* --------------------------------------------------------------- constants
ORCHARD_LEAF_HASH_LEVEL == 62

\* ------------------------------------------------------------------ helpers
RECURSIVE Pow(_, _)
Pow(b, e) == IF e = 0 THEN 1 ELSE b * Pow(b, e - 1)

Range(s) == {s[i] : i \in 1..Len(s)}

\* Result<T, E>
Ok(v) == [ok |-> TRUE, val |-> v]
Err(e) == [ok |-> FALSE, err |-> e]

\* Option<T>
Some(v) == <<v>>
None == <<>>

\* ------------------------------------------------------------ nullifiers
\* Nullifier::MIN, all bytes zero.
MIN_NF == [i \in 1..NULLIFIER_SIZE |-> 0]
\* Nullifier::MAX, all bytes 0xFF.
MAX_NF == [i \in 1..NULLIFIER_SIZE |-> 255]

\* Ord of [u8; N]: lexicographic from byte 0.
RECURSIVE cmp_bytes_from(_, _, _)
cmp_bytes_from(lhs, rhs, index) ==
    IF index > NULLIFIER_SIZE THEN "Equal"
    ELSE IF lhs[index] < rhs[index] THEN "Less"
    ELSE IF lhs[index] > rhs[index] THEN "Greater"
    ELSE cmp_bytes_from(lhs, rhs, index + 1)

nullifier_cmp(lhs, rhs) == cmp_bytes_from(lhs, rhs, 1)

\* for index in (0..32).rev(): the first differing byte from the top decides.
RECURSIVE cmp_repr_le_from(_, _, _)
cmp_repr_le_from(lhs, rhs, index) ==
    IF index = 0 THEN "Equal"
    ELSE IF lhs[index] < rhs[index] THEN "Less"
    ELSE IF lhs[index] > rhs[index] THEN "Greater"
    ELSE cmp_repr_le_from(lhs, rhs, index - 1)

\* A comparator that reads the bytes from the bottom (byte order, not field order).
cmp_pallas_repr_le_bytewise(lhs, rhs) == cmp_bytes_from(lhs, rhs, 1)

cmp_pallas_repr_le(lhs, rhs) == cmp_repr_le_from(lhs, rhs, NULLIFIER_SIZE)

orchard_cmp(lhs, rhs) == cmp_pallas_repr_le(lhs, rhs)

\* pool/orchard.rs holds its own copy of the comparator.
pool_cmp_pallas_repr_le(lhs, rhs) == cmp_repr_le_from(lhs, rhs, NULLIFIER_SIZE)

pool_orchard_cmp(lhs, rhs) == pool_cmp_pallas_repr_le(lhs, rhs)

\* The comparators by name, for the sort and search helpers.
Cmp(order, lhs, rhs) ==
    CASE order = "byte" -> nullifier_cmp(lhs, rhs)
      [] order = "orchard" -> orchard_cmp(lhs, rhs)
      [] order = "pool_orchard" -> pool_orchard_cmp(lhs, rhs)

\* ---------------------------------------------------------- pallas::Base
\* The field modulus p; its repr is 01 00 .. 00 40 (little-endian).
PallasModulus == 1 + 64 * Pow(256, NULLIFIER_SIZE - 1)

\* The integer a little-endian byte string denotes.
RECURSIVE LeValueFrom(_, _)
LeValueFrom(bytes, index) ==
    IF index > Len(bytes) THEN 0
    ELSE bytes[index] * Pow(256, index - 1) + LeValueFrom(bytes, index + 1)

LeValue(bytes) == LeValueFrom(bytes, 1)

\* pallas::Base::to_repr: the canonical little-endian bytes of a field element.
to_repr(v) == [i \in 1..NULLIFIER_SIZE |-> (v \div Pow(256, i - 1)) % 256]

\* MerkleHashOrchard::from_bytes: None unless the value is below the modulus.
orchard_node_from_bytes(bytes) ==
    IF LeValue(bytes) < PallasModulus THEN Some(LeValue(bytes)) ELSE None

pool_orchard_node_from_bytes(bytes) ==
    IF LeValue(bytes) < PallasModulus THEN Some(LeValue(bytes)) ELSE None

\* pallas::Base::from(0) - pallas::Base::from(1), as bytes.
orchard_max_nullifier == to_repr((0 - 1) % PallasModulus)

pool_orchard_max_nullifier == to_repr((0 - 1) % PallasModulus)

\* ------------------------------------------------------ sort and dedup
RECURSIVE InsertSorted(_, _, _)
InsertSorted(order, s, x) ==
    IF s = <<>> THEN <<x>>
    ELSE IF Cmp(order, x, Head(s)) = "Greater"
         THEN <<Head(s)>> \o InsertSorted(order, Tail(s), x)
         ELSE <<x>> \o s

\* sort_unstable_by(cmp) on nullifiers: elements equal under cmp are identical.
RECURSIVE sort_unstable_by(_, _)
sort_unstable_by(order, s) ==
    IF s = <<>> THEN <<>>
    ELSE InsertSorted(order, sort_unstable_by(order, Tail(s)), Head(s))

\* A dedup that removes only the first adjacent pair of equal elements.
RECURSIVE dedup_first_pair(_)
dedup_first_pair(s) ==
    IF Len(s) <= 1 THEN s
    ELSE IF s[1] = s[2] THEN Tail(s)
    ELSE <<s[1]>> \o dedup_first_pair(Tail(s))

\* Vec::dedup: drops every element equal to its predecessor.
RECURSIVE dedup(_)
dedup(s) ==
    IF Len(s) <= 1 THEN s
    ELSE IF s[1] = s[2] THEN dedup(Tail(s))
    ELSE <<s[1]>> \o dedup(Tail(s))

\* SanitiseNullifiers::new: sort (byte order of Nullifier), then dedup.
SanitiseNullifiers_new(xs) == dedup(sort_unstable_by("byte", xs))

\* <[T]>::is_sorted: non-decreasing.
is_sorted(s) == \A i \in 1..(Len(s) - 1) : nullifier_cmp(s[i], s[i + 1]) # "Greater"

\* <[T]>::binary_search_by on a sorted slice: Ok(index) or Err(insertion index).
RECURSIVE binary_search_loop(_, _, _, _, _)
binary_search_loop(order, s, x, base, size) ==
    IF size > 1
    THEN LET half == size \div 2
             mid == base + half
         IN binary_search_loop(order, s, x,
                IF Cmp(order, s[mid + 1], x) = "Greater" THEN base ELSE mid,
                size - half)
    ELSE LET c == Cmp(order, s[base + 1], x)
         IN IF c = "Equal" THEN Ok(base)
            ELSE Err(base + (IF c = "Less" THEN 1 ELSE 0))

\* A search that reports the insertion index even when the element is there.
binary_search_by_insertion_only(order, s, x) ==
    LET n == Cardinality({i \in 1..Len(s) : Cmp(order, s[i], x) = "Less"})
    IN Err(n)

binary_search_by(order, s, x) ==
    IF Len(s) = 0 THEN Err(0) ELSE binary_search_loop(order, s, x, 0, Len(s))

\* ------------------------------------------------------------ core.rs
TreePosition_new(nullifier, leaf_position, left_bound, right_bound) ==
    Ok([nullifier |-> nullifier, leaf_position |-> leaf_position,
        left_bound |-> left_bound, right_bound |-> right_bound])

\* ----------------------------------------------------- pool/sapling.rs
sapling_gap_bounds(nullifiers, gap_idx) ==
    IF Len(nullifiers) = 0 THEN <<MIN_NF, MAX_NF>>
    ELSE IF gap_idx = 0 THEN <<MIN_NF, nullifiers[1]>>
    ELSE IF gap_idx = Len(nullifiers) THEN <<nullifiers[gap_idx], MAX_NF>>
    ELSE <<nullifiers[gap_idx], nullifiers[gap_idx + 1]>>

RECURSIVE map_sapling_loop(_, _, _)
map_sapling_loop(chain_nullifiers, user_nullifiers, k) ==
    IF k > Len(user_nullifiers) THEN <<>>
    ELSE LET user_nf == user_nullifiers[k]
             found == binary_search_by("byte", chain_nullifiers, user_nf)
             rest == map_sapling_loop(chain_nullifiers, user_nullifiers, k + 1)
         IN IF found.ok THEN rest
            ELSE LET gap_idx == found.err
                     bounds == sapling_gap_bounds(chain_nullifiers, gap_idx)
                 IN <<TreePosition_new(user_nf, gap_idx, bounds[1], bounds[2]).val>> \o rest

map_sapling_user_positions(chain_nullifiers, user_nullifiers) ==
    Ok(map_sapling_loop(chain_nullifiers, user_nullifiers, 1))

\* ----------------------------------------------------- pool/orchard.rs
NonCanonicalOrchardNullifier(set, index) ==
    [kind |-> "NonCanonicalOrchardNullifier", set |-> set, index |-> index]

\* The parse loop of the canonicalisers: the first rejected entry aborts.
RECURSIVE pool_parse_chain(_, _, _, _)
pool_parse_chain(set, nullifiers, index, canonical) ==
    IF index >= Len(nullifiers) THEN Ok(canonical)
    ELSE LET node == pool_orchard_node_from_bytes(nullifiers[index + 1])
         IN IF node = None THEN Err(NonCanonicalOrchardNullifier(set, index))
            ELSE pool_parse_chain(set, nullifiers, index + 1,
                     Append(canonical, [bytes |-> to_repr(node[1]), node |-> node[1]]))

\* Sorting and deduplicating records by their bytes; the node follows its bytes.
BytesOf(canonical) == [i \in 1..Len(canonical) |-> canonical[i].bytes]

WithNodes(bytes_seq) ==
    [i \in 1..Len(bytes_seq) |-> [bytes |-> bytes_seq[i], node |-> LeValue(bytes_seq[i])]]

pool_canonicalize_orchard_chain_nullifiers(set, nullifiers) ==
    LET parsed == pool_parse_chain(set, nullifiers, 0, <<>>)
    IN IF ~parsed.ok THEN parsed
       ELSE Ok(WithNodes(dedup(sort_unstable_by("pool_orchard", BytesOf(parsed.val)))))

RECURSIVE pool_parse_user(_, _, _, _)
pool_parse_user(set, nullifiers, index, canonical) ==
    IF index >= Len(nullifiers) THEN Ok(canonical)
    ELSE LET node == pool_orchard_node_from_bytes(nullifiers[index + 1])
         IN IF node = None THEN Err(NonCanonicalOrchardNullifier(set, index))
            ELSE pool_parse_user(set, nullifiers, index + 1,
                     Append(canonical, to_repr(node[1])))

pool_canonicalize_orchard_user_nullifiers(set, nullifiers) ==
    LET parsed == pool_parse_user(set, nullifiers, 0, <<>>)
    IN IF ~parsed.ok THEN parsed
       ELSE Ok(dedup(sort_unstable_by("pool_orchard", parsed.val)))

RECURSIVE map_orchard_loop(_, _, _, _)
map_orchard_loop(chain_bytes, user, k, max) ==
    IF k > Len(user) THEN <<>>
    ELSE LET user_nf == user[k]
             found == binary_search_by("pool_orchard", chain_bytes, user_nf)
             rest == map_orchard_loop(chain_bytes, user, k + 1, max)
         IN IF found.ok THEN rest
            ELSE LET gap_idx == found.err
                     left == IF gap_idx = 0 THEN MIN_NF ELSE chain_bytes[gap_idx]
                     right == IF gap_idx = Len(chain_bytes) THEN max
                              ELSE chain_bytes[gap_idx + 1]
                 IN <<TreePosition_new(user_nf, gap_idx, left, right).val>> \o rest

map_orchard_user_positions(chain_nullifiers, user_nullifiers) ==
    LET chain == pool_canonicalize_orchard_chain_nullifiers("chain", chain_nullifiers)
    IN IF ~chain.ok THEN chain
       ELSE LET user == pool_canonicalize_orchard_user_nullifiers("user", user_nullifiers)
            IN IF ~user.ok THEN user
               ELSE Ok(map_orchard_loop(BytesOf(chain.val), user.val, 1,
                                        pool_orchard_max_nullifier))

\* --------------------------------------------------- sparse/orchard.rs
RECURSIVE parse_chain(_, _, _, _)
parse_chain(set, nullifiers, index, canonical) ==
    IF index >= Len(nullifiers) THEN Ok(canonical)
    ELSE LET node == orchard_node_from_bytes(nullifiers[index + 1])
         IN IF node = None THEN Err(NonCanonicalOrchardNullifier(set, index))
            ELSE parse_chain(set, nullifiers, index + 1,
                     Append(canonical, [bytes |-> nullifiers[index + 1], node |-> node[1]]))

\* A canonicaliser that parses but leaves the entries in their input order.
canonicalize_orchard_chain_nullifiers_unsorted(set, nullifiers) ==
    parse_chain(set, nullifiers, 0, <<>>)

\* A canonicaliser that reports the last rejected entry instead of the first.
canonicalize_orchard_chain_nullifiers_last(set, nullifiers) ==
    LET bad == {i \in 0..(Len(nullifiers) - 1) :
                    orchard_node_from_bytes(nullifiers[i + 1]) = None}
    IN IF bad = {} THEN parse_chain(set, nullifiers, 0, <<>>)
       ELSE Err(NonCanonicalOrchardNullifier(set, CHOOSE i \in bad : \A j \in bad : j <= i))

canonicalize_orchard_chain_nullifiers(set, nullifiers) ==
    LET parsed == parse_chain(set, nullifiers, 0, <<>>)
    IN IF ~parsed.ok THEN parsed
       ELSE Ok(WithNodes(dedup(sort_unstable_by("orchard", BytesOf(parsed.val)))))

RECURSIVE parse_user(_, _, _, _)
parse_user(set, nullifiers, index, canonical) ==
    IF index >= Len(nullifiers) THEN Ok(canonical)
    ELSE IF orchard_node_from_bytes(nullifiers[index + 1]) = None
         THEN Err(NonCanonicalOrchardNullifier(set, index))
         ELSE parse_user(set, nullifiers, index + 1, Append(canonical, nullifiers[index + 1]))

canonicalize_orchard_user_nullifiers(set, nullifiers) ==
    LET parsed == parse_user(set, nullifiers, 0, <<>>)
    IN IF ~parsed.ok THEN parsed
       ELSE Ok(dedup(sort_unstable_by("orchard", parsed.val)))

\* The Gap of gap_idx; gap_idx > len panics in the source and is never asked for.
orchard_gap_bounds(nullifiers, gap_idx, min_node, max_nf, max_node) ==
    LET len == Len(nullifiers)
    IN IF len = 0
       THEN [left_nf |-> MIN_NF, left_node |-> min_node,
             right_nf |-> max_nf, right_node |-> max_node]
       ELSE IF gap_idx = 0
       THEN [left_nf |-> MIN_NF, left_node |-> min_node,
             right_nf |-> nullifiers[1].bytes, right_node |-> nullifiers[1].node]
       ELSE IF gap_idx = len
       THEN [left_nf |-> nullifiers[gap_idx].bytes, left_node |-> nullifiers[gap_idx].node,
             right_nf |-> max_nf, right_node |-> max_node]
       ELSE [left_nf |-> nullifiers[gap_idx].bytes, left_node |-> nullifiers[gap_idx].node,
             right_nf |-> nullifiers[gap_idx + 1].bytes,
             right_node |-> nullifiers[gap_idx + 1].node]

\* MerkleHashOrchard::combine (Sinsemilla MerkleCRH), as an injective constructor.
combine(level, lhs, rhs) == <<"MerkleCRH", level, lhs, rhs>>

\* MerkleHashOrchard::empty_leaf.
empty_leaf == <<"Uncommitted">>

RECURSIVE empty_root(_)
empty_root(level) ==
    IF level = 0 THEN empty_leaf
    ELSE combine(level - 1, empty_root(level - 1), empty_root(level - 1))

leaf_from_nodes(left, right) == combine(ORCHARD_LEAF_HASH_LEVEL, left, right)

\* OrchardNonMembershipNode::to_bytes: the canonical bytes of the node's field element.
node_to_bytes(node) == <<"repr", node>>

\* BridgeTree<_, _, DEPTH>: the appended leaves and the marked positions.
BridgeTree_new == [leaves |-> <<>>, marked |-> {}]

\* BridgeTree::append: refuses (returns false) once 2^DEPTH leaves are in.
BridgeTree_append(t, leaf) ==
    IF Len(t.leaves) >= Pow(2, NON_MEMBERSHIP_TREE_DEPTH) THEN t
    ELSE [t EXCEPT !.leaves = Append(@, leaf)]

\* A mark that lands one position past the latest leaf.
BridgeTree_mark_next(t) ==
    IF Len(t.leaves) = 0 THEN t ELSE [t EXCEPT !.marked = @ \cup {Len(t.leaves)}]

\* BridgeTree::mark: marks the position of the latest leaf.
BridgeTree_mark(t) ==
    IF Len(t.leaves) = 0 THEN t ELSE [t EXCEPT !.marked = @ \cup {Len(t.leaves) - 1}]

\* One level up: pairs combined, a missing right sibling is the empty root.
next_level(current, level) ==
    [k \in 1..((Len(current) + 1) \div 2) |->
        combine(level, current[2 * k - 1],
                IF 2 * k <= Len(current) THEN current[2 * k] ELSE empty_root(level))]

RECURSIVE root_from(_, _)
root_from(current, level) ==
    IF level = NON_MEMBERSHIP_TREE_DEPTH THEN current[1]
    ELSE root_from(next_level(current, level), level + 1)

\* BridgeTree::root(0): the root of the depth-DEPTH tree over the leaves.
BridgeTree_root(t) ==
    IF Len(t.leaves) = 0 THEN empty_root(NON_MEMBERSHIP_TREE_DEPTH)
    ELSE root_from(t.leaves, 0)

\* -------------------------------------------- non-membership-proofs/lib.rs
\* build_leaf: the two nullifiers side by side.
build_leaf(nf1, nf2) == nf1 \o nf2

\* H::hash (SHA-256), as an injective constructor.
Hash(data) == <<"H", data>>

\* rs_merkle MerkleTree: its leaves.
MerkleTree_new == [leaves |-> <<>>]

MerkleTree_from_leaves(leaves) == [leaves |-> leaves]

\* A builder that skips the sortedness check.
build_merkle_tree_unchecked(nullifiers) ==
    IF Len(nullifiers) = 0 THEN Ok(MerkleTree_new)
    ELSE Ok(MerkleTree_from_leaves(
            <<Hash(build_leaf(MIN_NF, nullifiers[1]))>>
            \o [i \in 1..(Len(nullifiers) - 1) |->
                    Hash(build_leaf(nullifiers[i], nullifiers[i + 1]))]
            \o <<Hash(build_leaf(nullifiers[Len(nullifiers)], MAX_NF))>>))

\* A builder that forgets the back leaf.
build_merkle_tree_no_back(nullifiers) ==
    IF Len(nullifiers) = 0 THEN Ok(MerkleTree_new)
    ELSE IF ~is_sorted(nullifiers) THEN Err("NotSorted")
    ELSE Ok(MerkleTree_from_leaves(
            <<Hash(build_leaf(MIN_NF, nullifiers[1]))>>
            \o [i \in 1..(Len(nullifiers) - 1) |->
                    Hash(build_leaf(nullifiers[i], nullifiers[i + 1]))]))

build_merkle_tree(nullifiers) ==
    IF Len(nullifiers) = 0 THEN Ok(MerkleTree_new)
    ELSE IF ~is_sorted(nullifiers) THEN Err("NotSorted")
    ELSE LET first == nullifiers[1]
             last == nullifiers[Len(nullifiers)]
             front == Hash(build_leaf(MIN_NF, first))
             back == Hash(build_leaf(last, MAX_NF))
             windows == [i \in 1..(Len(nullifiers) - 1) |->
                            Hash(build_leaf(nullifiers[i], nullifiers[i + 1]))]
         IN Ok(MerkleTree_from_leaves(<<front>> \o windows \o <<back>>))

\* ------------------------------------------------------ gap_tree/dense.rs
\* 33 in the source: one level per tree depth, and the root's.
TREE_LEVEL_COUNT == NON_MEMBERSHIP_TREE_DEPTH + 1

Unexpected(msg) == [kind |-> "Unexpected", msg |-> msg]

LeavesOverflow(count) == [kind |-> "LeavesOverflow", count |-> count]

NotMarked(position) == [kind |-> "NotMarked", position |-> position]

validate_leaf_count(leaf_count) ==
    IF leaf_count = 0
    THEN Err(Unexpected("gap-tree leaf count must be greater than zero"))
    ELSE IF leaf_count >= Pow(2, NON_MEMBERSHIP_TREE_DEPTH)
    THEN Err(LeavesOverflow(leaf_count))
    ELSE Ok(<<>>)

\* usize::div_ceil
div_ceil(a, b) == (a + b - 1) \div b

\* for level in 0..TREE_LEVEL_COUNT; the arrays are indexed from 1 here.
RECURSIVE level_layout_loop(_, _, _, _, _)
level_layout_loop(level, width, offset, widths, offsets) ==
    IF level >= TREE_LEVEL_COUNT THEN <<widths, offsets, offset>>
    ELSE level_layout_loop(level + 1, div_ceil(width, 2), offset + width,
             Append(widths, width), Append(offsets, offset))

level_layout(leaf_count) == level_layout_loop(0, leaf_count, 0, <<>>, <<>>)

\* The closures handed to the dense tree: the Orchard node functions.
empty_root_bytes(level) == node_to_bytes(empty_root(level))

\* for pair_start in (0..current.len()).step_by(2): lines 71-75.
dense_next(current, level) ==
    [k \in 1..div_ceil(Len(current), 2) |->
        LET pair_start == 2 * (k - 1)
            left == current[pair_start + 1]
            right == IF pair_start + 1 < Len(current) THEN current[pair_start + 2]
                     ELSE empty_root(level)
        IN combine(level, left, right)]

\* for level in 0..NON_MEMBERSHIP_TREE_DEPTH: lines 68-78.
RECURSIVE from_leaves_loop(_, _, _)
from_leaves_loop(level, current, nodes) ==
    IF level >= NON_MEMBERSHIP_TREE_DEPTH THEN nodes
    ELSE LET next == dense_next(current, level)
         IN from_leaves_loop(level + 1, next,
                nodes \o [i \in 1..Len(next) |-> node_to_bytes(next[i])])

DenseGapTree_from_nodes(leaf_count, leaf_count_u64, level_widths, level_offsets, total_nodes, nodes) ==
    IF Len(nodes) # total_nodes THEN Err(Unexpected("gap-tree node count mismatch"))
    ELSE IF Len(nodes) = 0 THEN Err(Unexpected("gap-tree must contain at least one node"))
    ELSE Ok([leaf_count |-> leaf_count, leaf_count_u64 |-> leaf_count_u64,
             level_widths |-> level_widths, level_offsets |-> level_offsets,
             nodes |-> nodes, root |-> nodes[Len(nodes)]])

DenseGapTree_from_leaves(leaves) ==
    LET leaf_count == Len(leaves)
        valid == validate_leaf_count(leaf_count)
    IN IF ~valid.ok THEN valid
       ELSE LET layout == level_layout(leaf_count)
                nodes == from_leaves_loop(0, leaves,
                            [i \in 1..leaf_count |-> node_to_bytes(leaves[i])])
            IN DenseGapTree_from_nodes(leaf_count, leaf_count, layout[1], layout[2],
                                       layout[3], nodes)

DenseGapTree_root_bytes(self) == self.root

\* A lookup that forgets the level's offset.
DenseGapTree_node_at_level_zero(self, level, index) == self.nodes[index + 1]

DenseGapTree_node_at(self, level, index) ==
    self.nodes[self.level_offsets[level + 1] + index + 1]

\* for level in 0..NON_MEMBERSHIP_TREE_DEPTH: lines 172-187.
RECURSIVE witness_bytes_loop(_, _, _, _)
witness_bytes_loop(self, level, index, witness) ==
    IF level >= NON_MEMBERSHIP_TREE_DEPTH THEN witness
    ELSE LET width == self.level_widths[level + 1]
             sibling == IF index % 2 = 0 THEN index + 1
                        ELSE IF index = 0 THEN 0 ELSE index - 1
             sibling_node == IF sibling < width
                             THEN DenseGapTree_node_at(self, level, sibling)
                             ELSE empty_root_bytes(level)
         IN witness_bytes_loop(self, level + 1, index \div 2,
                               Append(witness, sibling_node))

DenseGapTree_witness_bytes(self, leaf_position) ==
    IF leaf_position >= self.leaf_count THEN Err(NotMarked(leaf_position))
    ELSE Ok(witness_bytes_loop(self, 0, leaf_position, <<>>))

\* ------------------------------------ gap_tree/dense.rs (serialisation)
SERIALIZED_LEAF_COUNT_BYTES == 8

\* 32 in the source: a node is as wide as a nullifier.
SERIALIZED_NODE_BYTES == NULLIFIER_SIZE

\* The bytes of a node array: the array is known by its value, so its i-th
\* byte is known by the array and i.
node_array_bytes(node) == [i \in 1..SERIALIZED_NODE_BYTES |-> <<node, i>>]

\* node.copy_from_slice(chunk): the array whose bytes the chunk holds.
node_array_from(chunk) ==
    IF Len(chunk[1]) = 2 /\ chunk = node_array_bytes(chunk[1][1]) THEN chunk[1][1]
    ELSE <<"bytes", chunk>>

\* u64::to_le_bytes, low byte first.
RECURSIVE to_le_bytes(_, _)
to_le_bytes(value, width) ==
    IF width = 0 THEN <<>>
    ELSE <<value % 256>> \o to_le_bytes(value \div 256, width - 1)

\* u64::from_le_bytes
RECURSIVE from_le_bytes(_)
from_le_bytes(bytes) ==
    IF bytes = <<>> THEN 0 ELSE Head(bytes) + 256 * from_le_bytes(Tail(bytes))

\* for node in &self.nodes { bytes.extend_from_slice(node) }
RECURSIVE extend_from_nodes(_, _)
extend_from_nodes(bytes, nodes) ==
    IF nodes = <<>> THEN bytes
    ELSE extend_from_nodes(bytes \o node_array_bytes(Head(nodes)), Tail(nodes))

\* A to_bytes that writes the leaf count high byte first.
DenseGapTree_to_bytes_big_endian(self) ==
    LET header == to_le_bytes(self.leaf_count_u64, SERIALIZED_LEAF_COUNT_BYTES)
    IN extend_from_nodes([i \in 1..Len(header) |-> header[Len(header) + 1 - i]],
                         self.nodes)

DenseGapTree_to_bytes(self) ==
    extend_from_nodes(to_le_bytes(self.leaf_count_u64, SERIALIZED_LEAF_COUNT_BYTES),
                      self.nodes)

\* A from_bytes that leaves the length to the node count check of from_nodes.
DenseGapTree_from_bytes_unchecked(bytes) ==
    IF Len(bytes) < SERIALIZED_LEAF_COUNT_BYTES
    THEN Err(Unexpected("gap-tree file is too short"))
    ELSE LET leaf_count_u64 == from_le_bytes(SubSeq(bytes, 1, SERIALIZED_LEAF_COUNT_BYTES))
             valid == validate_leaf_count(leaf_count_u64)
         IN IF ~valid.ok THEN valid
            ELSE LET layout == level_layout(leaf_count_u64)
                     payload == SubSeq(bytes, SERIALIZED_LEAF_COUNT_BYTES + 1, Len(bytes))
                     nodes == [k \in 1..(Len(payload) \div SERIALIZED_NODE_BYTES) |->
                                  node_array_from(SubSeq(payload,
                                      (k - 1) * SERIALIZED_NODE_BYTES + 1,
                                      k * SERIALIZED_NODE_BYTES))]
                 IN DenseGapTree_from_nodes(leaf_count_u64, leaf_count_u64, layout[1],
                                            layout[2], layout[3], nodes)

DenseGapTree_from_bytes(bytes) ==
    IF Len(bytes) < SERIALIZED_LEAF_COUNT_BYTES
    THEN Err(Unexpected("gap-tree file is too short"))
    ELSE LET leaf_count_u64 == from_le_bytes(SubSeq(bytes, 1, SERIALIZED_LEAF_COUNT_BYTES))
             leaf_count == leaf_count_u64
             valid == validate_leaf_count(leaf_count)
         IN IF ~valid.ok THEN valid
            ELSE LET layout == level_layout(leaf_count)
                     total_nodes == layout[3]
                     expected_len == SERIALIZED_LEAF_COUNT_BYTES
                                     + total_nodes * SERIALIZED_NODE_BYTES
                 IN IF Len(bytes) # expected_len
                    THEN Err(Unexpected("gap-tree file length mismatch"))
                    ELSE LET payload == SubSeq(bytes, SERIALIZED_LEAF_COUNT_BYTES + 1,
                                               Len(bytes))
                             nodes == [k \in 1..(Len(payload) \div SERIALIZED_NODE_BYTES) |->
                                          node_array_from(SubSeq(payload,
                                              (k - 1) * SERIALIZED_NODE_BYTES + 1,
                                              k * SERIALIZED_NODE_BYTES))]
                         IN DenseGapTree_from_nodes(leaf_count, leaf_count_u64, layout[1],
                                                    layout[2], total_nodes, nodes)

\* ------------------------------------- sparse/orchard.rs (witness_bytes)
WitnessError(e) == [kind |-> "WitnessError", msg |-> e]

\* bridgetree's WitnessingError::PositionNotMarked, as {e:?} prints it.
PositionNotMarked(position) == <<"PositionNotMarked", position>>

\* The siblings of a position from the leaves up, an absent one being the
\* empty root of its level.
RECURSIVE witness_path(_, _, _)
witness_path(current, level, index) ==
    IF level = NON_MEMBERSHIP_TREE_DEPTH THEN <<>>
    ELSE LET sibling == IF index % 2 = 0 THEN index + 1 ELSE index - 1
         IN <<IF sibling < Len(current) THEN current[sibling + 1] ELSE empty_root(level)>>
            \o witness_path(next_level(current, level), level + 1, index \div 2)

\* BridgeTree::witness(position, 0): only for a marked position.
BridgeTree_witness(t, position) ==
    IF position \notin t.marked THEN Err(PositionNotMarked(position))
    ELSE Ok(witness_path(t.leaves, 0, position))

OrchardNonMembershipTree_witness_bytes(self, position) ==
    LET path == BridgeTree_witness(self.inner, position)
    IN IF path.ok THEN Ok([k \in 1..Len(path.val) |-> node_to_bytes(path.val[k])])
       ELSE Err(WitnessError(path.err))

\* ------------------------------------- sparse/orchard.rs (from_leaves)
\* The append loop of from_leaves: the tree and leaf count, or the error of an
\* append that was refused.
RECURSIVE from_leaves_append(_, _, _)
from_leaves_append(tree, leaf_count, leaves) ==
    IF leaves = <<>> THEN Ok(<<tree, leaf_count>>)
    ELSE IF BridgeTree_append(tree, Head(leaves)) = tree
    THEN Err(Unexpected("Failed to append leaf to the Merkle tree"))
    ELSE from_leaves_append(BridgeTree_append(tree, Head(leaves)), leaf_count + 1,
                            Tail(leaves))

OrchardNonMembershipTree_from_leaves(leaves) ==
    LET len == Len(leaves)
    IN IF len >= Pow(2, NON_MEMBERSHIP_TREE_DEPTH) THEN Err(LeavesOverflow(len))
       ELSE IF len = 0
       THEN Err(Unexpected(
                "0 leaves provided for a non-membership tree. This is not a valid case."))
       ELSE LET appended == from_leaves_append(BridgeTree_new, 0, leaves)
            IN IF ~appended.ok THEN appended
               ELSE Ok([inner |-> appended.val[1],
                        cached_root |-> BridgeTree_root(appended.val[1]),
                        leaf_count |-> appended.val[2]])

\* ------------------------------------- non-membership-proofs/lib.rs (files)
InvalidData(len) == [kind |-> "InvalidData", bytes |-> len]

\* chunks_exact(NULLIFIER_SIZE) of the first complete_count blocks of bytes.
chunks_exact(bytes, complete_count) ==
    [k \in 1..complete_count |->
        SubSeq(bytes, (k - 1) * NULLIFIER_SIZE + 1, k * NULLIFIER_SIZE)]

\* bytemuck::cast_slice of nullifiers to bytes: the blocks laid end to end.
RECURSIVE cast_slice(_)
cast_slice(nullifiers) ==
    IF nullifiers = <<>> THEN <<>>
    ELSE Head(nullifiers) \o cast_slice(Tail(nullifiers))

\* A writer that puts the nullifiers in order first.
write_nullifiers_sorted(nullifiers) == cast_slice(sort_unstable_by("byte", nullifiers))

\* write_nullifiers: the bytes the writer receives.
write_nullifiers(nullifiers) == cast_slice(nullifiers)

\* A reader that accepts any length and drops the trailing bytes.
read_nullifiers_truncating(bytes) ==
    Ok(chunks_exact(bytes, Len(bytes) \div NULLIFIER_SIZE))

\* read_nullifiers: the whole input, refused unless a whole number of blocks.
read_nullifiers(bytes) ==
    IF Len(bytes) % NULLIFIER_SIZE # 0 THEN Err(InvalidData(Len(bytes)))
    ELSE Ok(chunks_exact(bytes, Len(bytes) \div NULLIFIER_SIZE))

\* ------------------------------- airdrop/chain_nullifiers.rs (file loading)
\* load_nullifiers_from_file on a file that opens: read, then sort if unsorted.
load_nullifiers_from_file(bytes) ==
    LET read == read_nullifiers(bytes)
    IN IF ~read.ok THEN read
       ELSE IF is_sorted(read.val) THEN read
       ELSE Ok(sort_unstable_by("byte", read.val))

\* ------------------------------------- non-membership-proofs/source/file.rs
\* Nullifiers a default buffer holds (1024 in the source).
BUF_NULLIFIERS == 2

BUF_SIZE == BUF_NULLIFIERS * NULLIFIER_SIZE

UnexpectedEof(trailing) == [kind |-> "UnexpectedEof", trailing |-> trailing]

\* A buffer of the size asked for, however small.
effective_buf_size_as_given(size) == size

\* buf_size.max(NULLIFIER_SIZE)
effective_buf_size(size) == IF size < NULLIFIER_SIZE THEN NULLIFIER_SIZE ELSE size

\* buf.copy_within(from..to, 0)
copy_within(buf, from, to) ==
    [i \in 1..Len(buf) |-> IF i <= to - from THEN buf[from + i] ELSE buf[i]]

\* One pass of the loop that forgets the bytes carried over.
read_nullifiers_pass_no_carry(buf, leftover, data) ==
    LET n == Len(data)
        filled == [i \in 1..Len(buf) |-> IF i <= n THEN data[i] ELSE buf[i]]
        complete_count == n \div NULLIFIER_SIZE
    IN [buf |-> filled, leftover |-> 0, yield |-> chunks_exact(filled, complete_count)]

\* One pass of read_nullifiers' loop after a read that returned data (n > 0
\* bytes, written after the bytes carried over): the buffer, the bytes carried
\* over and the nullifiers yielded.
read_nullifiers_pass(buf, leftover, data) ==
    LET n == Len(data)
        filled == [i \in 1..Len(buf) |->
                     IF i > leftover /\ i <= leftover + n THEN data[i - leftover]
                     ELSE buf[i]]
        total == leftover + n
        complete_count == total \div NULLIFIER_SIZE
        complete_bytes == complete_count * NULLIFIER_SIZE
        carried == total - complete_bytes
    IN [buf |-> IF carried > 0 THEN copy_within(filled, complete_bytes, total)
                ELSE filled,
        leftover |-> carried,
        yield |-> chunks_exact(filled, complete_count)]

\* ------------------------------------- airdrop/cli.rs and zair-cli/cli.rs
\* The width both parsers name in their error message.
SAPLING_PERSONALIZATION_BYTES == 8

\* parse_sapling_personalization: the argument's bytes, if there are at most 8.
parse_sapling_personalization(s) ==
    IF ~(Len(s) <= SAPLING_PERSONALIZATION_BYTES)
    THEN Err("Sapling personalization must be exactly 8 bytes")
    ELSE Ok(s)

\* parse_sapling_target_id: the argument, if it is 8 bytes long.
parse_sapling_target_id(s) ==
    IF ~(Len(s) = SAPLING_PERSONALIZATION_BYTES)
    THEN Err("Sapling target_id must be exactly 8 bytes")
    ELSE Ok(s)

\* ================================================================ state
VARIABLES
    \* inputs of the mapping and tree builders
    chain_raw,          \* the chain nullifiers as read (any order, duplicates)
    chain_nullifiers,   \* SanitiseNullifiers::new(chain_raw)
    user_nullifiers,    \* the user's SanitiseNullifiers
    \* the operation in progress and its result
    pc, op, result,
    \* locals of from_chain_and_user_nullifiers_with_progress
    chain, user, tree, leaf_count, user_gap_mapping, user_idx, gap_idx, gap, should_mark

VARIABLES
    \* DenseGapTree: the leaves handed to from_leaves, the Result it returned,
    \* the position asked of witness_bytes and the Result that returned; and
    \* the Result of OrchardNonMembershipTree::from_leaves on the same leaves
    leaves, dense, leaf_position, witness, sparse,
    \* to_bytes of the dense tree, the bytes handed to from_bytes and its Result
    serialized, bytes_in, restored

VARIABLES
    \* partition_by_pool: the stream's items, how many were polled, the two
    \* buffers and the value returned
    stream, polled, sapling, orchard, partition_result

VARIABLES
    \* airdrop_claim: its arguments and the files and services it reads
    birthday_height, snapshot_end, input_files,
    \* its position, locals, effects and return value
    claim_pc, airdrop_config, pool_data, proofs_generated, output_written, claim_result,
    \* the work it has started: lightwalletd connection, chain scan, snapshot
    \* load, tree build
    work_started

denseVars == <<leaves, dense, leaf_position, witness, sparse, serialized, bytes_in,
               restored>>

partitionVars == <<stream, polled, sapling, orchard, partition_result>>

claimVars == <<birthday_height, snapshot_end, input_files, claim_pc, airdrop_config,
               pool_data, proofs_generated, output_written, claim_result, work_started>>

VARIABLES
    \* FileSource: the two files (absent, or their bytes) and the buffer size
    sapling_file, orchard_file, buf_size,
    \* nullifiers_stream and read_nullifiers: the file being read, the reader's
    \* position, the buffer, the bytes carried over and the items yielded
    read_pc, file_idx, reader_pos, buf, leftover, yielded,
    \* partition_by_pool over that stream, and load_nullifiers_from_file on
    \* each file: what they returned
    pooled, loaded

readVars == <<sapling_file, orchard_file, buf_size, read_pc, file_idx, reader_pos, buf,
              leftover, yielded, pooled, loaded>>

VARIABLES
    \* build_airdrop_configuration: the stream it is given, its position, the
    \* two sanitised pools, what each process_pool returned, the files that
    \* exist because of the run, and its return value
    config_stream, config_pc, pool_nullifiers, pool_roots, snapshot_files, config_file,
    config_result

configVars == <<config_stream, config_pc, pool_nullifiers, pool_roots, snapshot_files,
                config_file, config_result>>

VARIABLES
    \* OrchardNonMembershipTree::witness_bytes on the tree of the fused build:
    \* the position asked for and the Result returned
    sparse_position, sparse_witness

queryVars == <<sparse_position, sparse_witness>>

VARIABLES
    \* write_nullifiers then read_nullifiers: the nullifiers handed to the
    \* writer, the bytes it wrote and what the reader returned
    original, written_bytes, read_back

persistVars == <<original, written_bytes, read_back>>

VARIABLES
    \* the command-line argument (its bytes) and what each parser made of it
    cli_arg, personalization, target_id

cliVars == <<cli_arg, personalization, target_id>>

VARIABLES
    \* PrivateInputs serialised into the claim bundle: the pool, the byte fields, the strings written and what reading them back gave
    bundle_pool, bundle_inputs, bundle_json, bundle_back

bundleVars == <<bundle_pool, bundle_inputs, bundle_json, bundle_back>>

VARIABLES
    \* canonicalisation applied and re-applied to an arbitrary list
    canon_fn, canon_in, canon_out

canonVars == <<canon_fn, canon_in, canon_out>>

VARIABLES
    \* build_airdrop_configuration as an orchestrator and its two spawned process_pool tasks
    orch_pc, task_input, task_nullifiers, task_pc, task_out, blocking, task_files, task_config, task_log, task_finished

taskVars == <<orch_pc, task_input, task_nullifiers, task_pc, task_out, blocking, task_files, task_config, task_log, task_finished>>

VARIABLES
    \* the legacy FileSource::into_nullifiers_stream
    legacy_files, legacy_pc, legacy_idx, legacy_pos, legacy_buf, legacy_yielded

legacyVars == <<legacy_files, legacy_pc, legacy_idx, legacy_pos, legacy_buf, legacy_yielded>>

VARIABLES
    \* airdrop_claim from the found notes to the proofs of each pool
    found_notes, viewing_keys, proof_pc, note_idx, user_nullifiers_by_pool, note_metadata_map, loaded_positions, proofs_by_pool

proofVars == <<found_notes, viewing_keys, proof_pc, note_idx, user_nullifiers_by_pool, note_metadata_map, loaded_positions, proofs_by_pool>>

mapVars == <<chain_raw, chain_nullifiers, user_nullifiers, pc, op, result,
             chain, user, tree, leaf_count, user_gap_mapping, user_idx, gap_idx,
             gap, should_mark>>

inputVars == <<chain_raw, chain_nullifiers, user_nullifiers>>

fusedVars == <<chain, user, tree, leaf_count, user_gap_mapping, user_idx, gap_idx,
               gap, should_mark>>

\* What the operations of one group leave alone.
notMapVars == <<denseVars, partitionVars, claimVars, readVars, configVars, queryVars,
    persistVars, cliVars,
    bundleVars,
    canonVars,
    taskVars,
    legacyVars,
    proofVars>>

notDenseVars == <<mapVars, partitionVars, claimVars, readVars, configVars, queryVars,
    persistVars, cliVars,
    bundleVars,
    canonVars,
    taskVars,
    legacyVars,
    proofVars>>

notPartitionVars == <<mapVars, denseVars, claimVars, readVars, configVars, queryVars,
    persistVars, cliVars,
    bundleVars,
    canonVars,
    taskVars,
    legacyVars,
    proofVars>>

notClaimVars == <<mapVars, denseVars, partitionVars, readVars, configVars, queryVars,
    persistVars, cliVars,
    bundleVars,
    canonVars,
    taskVars,
    legacyVars,
    proofVars>>

notReadVars == <<mapVars, denseVars, partitionVars, claimVars, configVars, queryVars,
    persistVars, cliVars,
    bundleVars,
    canonVars,
    taskVars,
    legacyVars,
    proofVars>>

notConfigVars == <<mapVars, denseVars, partitionVars, claimVars, readVars, queryVars,
    persistVars, cliVars,
    bundleVars,
    canonVars,
    taskVars,
    legacyVars,
    proofVars>>

notQueryVars == <<mapVars, denseVars, partitionVars, claimVars, readVars, configVars,
    persistVars, cliVars,
    bundleVars,
    canonVars,
    taskVars,
    legacyVars,
    proofVars>>

notPersistVars == <<mapVars, denseVars, partitionVars, claimVars, readVars, configVars,
    queryVars, cliVars,
    bundleVars,
    canonVars,
    taskVars,
    legacyVars,
    proofVars>>

notCliVars == <<mapVars, denseVars, partitionVars, claimVars, readVars, configVars,
    queryVars, persistVars,
    bundleVars,
    canonVars,
    taskVars,
    legacyVars,
    proofVars>>

\* ---------------------------------------------------------------- inputs
\* Nullifiers that differ in their first and last byte only, and Nullifier::MAX:
\* the sentinels, values on both sides of the modulus, and pairs that the byte
\* order and the field order rank differently.
EdgeNf(first, last) ==
    [i \in 1..NULLIFIER_SIZE |->
        IF i = 1 THEN first ELSE IF i = NULLIFIER_SIZE THEN last ELSE 0]

Universe ==
    {EdgeNf(0, 0), EdgeNf(1, 0), EdgeNf(0, 1), EdgeNf(0, 64), EdgeNf(1, 64), MAX_NF}

RawLists(n) == UNION {[1..k -> Universe] : k \in 0..n}

UserInputs == {SanitiseNullifiers_new(r) : r \in RawLists(MaxUser)}

NoGap == [left_nf |-> MIN_NF, left_node |-> 0, right_nf |-> MIN_NF, right_node |-> 0]

FusedIdle ==
    /\ chain = <<>>
    /\ user = <<>>
    /\ tree = BridgeTree_new
    /\ leaf_count = 0
    /\ user_gap_mapping = <<>>
    /\ user_idx = 0
    /\ gap_idx = 0
    /\ gap = NoGap
    /\ should_mark = FALSE

CliIdle ==
    /\ cli_arg = <<>>
    /\ personalization = None
    /\ target_id = None

PersistIdle ==
    /\ original = <<>>
    /\ written_bytes = None
    /\ read_back = None

QueryIdle ==
    /\ sparse_position = 0
    /\ sparse_witness = None

BundleIdle ==
    /\ bundle_pool = "none"
    /\ bundle_inputs = <<>>
    /\ bundle_json = None
    /\ bundle_back = None

CanonIdle ==
    /\ canon_fn = "none"
    /\ canon_in = <<>>
    /\ canon_out = <<>>

NoPools == [pool \in {"Sapling", "Orchard"} |-> None]

TaskIdle ==
    /\ orch_pc = "idle"
    /\ task_input = NoPools
    /\ task_nullifiers = NoPools
    /\ task_pc = NoPools
    /\ task_out = NoPools
    /\ blocking = NoPools
    /\ task_files = NoPools
    /\ task_config = <<>>
    /\ task_log = NoPools
    /\ task_finished = <<>>

LegacyIdle ==
    /\ legacy_files = <<>>
    /\ legacy_pc = "idle"
    /\ legacy_idx = 1
    /\ legacy_pos = 0
    /\ legacy_buf = <<>>
    /\ legacy_yielded = <<>>

ProofIdle ==
    /\ found_notes = <<>>
    /\ viewing_keys = <<>>
    /\ proof_pc = "idle"
    /\ note_idx = 0
    /\ user_nullifiers_by_pool = NoPools
    /\ note_metadata_map = <<>>
    /\ loaded_positions = NoPools
    /\ proofs_by_pool = NoPools

MapIdle ==
    /\ QueryIdle
    /\ PersistIdle
    /\ CliIdle
    /\ chain_raw = <<>>
    /\ chain_nullifiers = <<>>
    /\ user_nullifiers = <<>>
    /\ pc = "idle"
    /\ op = "none"
    /\ result = None
    /\ FusedIdle

DenseIdle ==
    /\ leaves = <<>>
    /\ dense = None
    /\ leaf_position = 0
    /\ witness = None
    /\ sparse = None
    /\ serialized = None
    /\ bytes_in = <<>>
    /\ restored = None

PartitionIdle ==
    /\ stream = <<>>
    /\ polled = 0
    /\ sapling = <<>>
    /\ orchard = <<>>
    /\ partition_result = Some(Ok(<<>>))

ClaimIdle ==
    /\ birthday_height = 0
    /\ snapshot_end = 0
    /\ input_files = FALSE
    /\ claim_pc = "idle"
    /\ airdrop_config = None
    /\ pool_data = None
    /\ proofs_generated = FALSE
    /\ output_written = FALSE
    /\ claim_result = None
    /\ work_started = {}

ReadIdle ==
    /\ sapling_file = None
    /\ orchard_file = None
    /\ buf_size = 0
    /\ read_pc = "idle"
    /\ file_idx = 0
    /\ reader_pos = 0
    /\ buf = <<>>
    /\ leftover = 0
    /\ yielded = <<>>
    /\ pooled = None
    /\ loaded = <<>>

ConfigIdle ==
    /\ config_stream = <<>>
    /\ config_pc = "idle"
    /\ pool_nullifiers = NoPools
    /\ pool_roots = NoPools
    /\ snapshot_files = NoPools
    /\ config_file = None
    /\ config_result = None

InitMap ==
    /\ ProofIdle
    /\ LegacyIdle
    /\ TaskIdle
    /\ CanonIdle
    /\ BundleIdle
    /\ ConfigIdle
    /\ DenseIdle
    /\ PartitionIdle
    /\ ClaimIdle
    /\ ReadIdle
    /\ QueryIdle
    /\ PersistIdle
    /\ CliIdle
    /\ chain_raw \in RawLists(MaxChain)
    /\ chain_nullifiers = SanitiseNullifiers_new(chain_raw)
    /\ user_nullifiers \in UserInputs
    /\ pc = "start"
    /\ op = "none"
    /\ result = None
    /\ FusedIdle

\* ------------------------------------------------------------ operations
MapSapling ==
    /\ pc = "start"
    /\ pc' = "done"
    /\ op' = "map_sapling_user_positions"
    /\ result' = map_sapling_user_positions(chain_nullifiers, user_nullifiers)
    /\ UNCHANGED <<inputVars, fusedVars, notMapVars>>

MapOrchard ==
    /\ pc = "start"
    /\ pc' = "done"
    /\ op' = "map_orchard_user_positions"
    /\ result' = map_orchard_user_positions(chain_nullifiers, user_nullifiers)
    /\ UNCHANGED <<inputVars, fusedVars, notMapVars>>

\* build_merkle_tree takes a plain slice: the caller may pass it unsorted.
BuildMerkleTree ==
    /\ pc = "start"
    /\ pc' = "done"
    /\ op' = "build_merkle_tree"
    /\ result' = build_merkle_tree(chain_raw)
    /\ UNCHANGED <<inputVars, fusedVars, notMapVars>>

\* The same nullifiers, sorted first (test-utils nfs!: v.sort()).
BuildMerkleTreeSorted ==
    /\ pc = "start"
    /\ pc' = "done"
    /\ op' = "build_merkle_tree_sorted"
    /\ result' = build_merkle_tree(sort_unstable_by("byte", chain_raw))
    /\ UNCHANGED <<inputVars, fusedVars, notMapVars>>

\* from_chain_and_user_nullifiers (with_user) or from_nullifiers (empty user set):
\* lines 186-200, up to the gap loop.
FusedBegin(with_user) ==
    /\ pc = "start"
    /\ op' = IF with_user THEN "from_chain_and_user_nullifiers" ELSE "from_nullifiers"
    /\ LET c == canonicalize_orchard_chain_nullifiers("chain", chain_nullifiers)
           u == canonicalize_orchard_user_nullifiers("user",
                    IF with_user THEN user_nullifiers ELSE SanitiseNullifiers_new(<<>>))
       IN IF ~c.ok
          THEN /\ pc' = "done"
               /\ result' = c
               /\ UNCHANGED fusedVars
          ELSE IF ~u.ok
          THEN /\ pc' = "done"
               /\ result' = u
               /\ UNCHANGED fusedVars
          ELSE /\ pc' = "for"
               /\ result' = None
               /\ chain' = c.val
               /\ user' = u.val
               /\ tree' = BridgeTree_new
               /\ leaf_count' = 0
               /\ user_gap_mapping' = <<>>
               /\ user_idx' = 0
               /\ gap_idx' = 0
               /\ UNCHANGED <<gap, should_mark>>
    /\ UNCHANGED <<inputVars, notMapVars>>

num_gaps == Len(chain) + 1

\* for gap_idx in 0..num_gaps: lines 204-208.
FusedGap ==
    /\ pc = "for"
    /\ gap_idx < num_gaps
    /\ LET g == orchard_gap_bounds(chain, gap_idx, orchard_node_from_bytes(MIN_NF)[1],
                    orchard_max_nullifier,
                    orchard_node_from_bytes(orchard_max_nullifier)[1])
       IN /\ gap' = g
          /\ tree' = BridgeTree_append(tree, leaf_from_nodes(g.left_node, g.right_node))
    /\ should_mark' = FALSE
    /\ pc' = "while"
    /\ UNCHANGED <<notMapVars,
                   inputVars, op, result, chain, user, leaf_count, user_gap_mapping,
                   user_idx, gap_idx>>

\* lines 209-214: the user nullifier is not above the gap's left bound.
FusedSkip ==
    /\ pc = "while"
    /\ user_idx < Len(user)
    /\ orchard_cmp(user[user_idx + 1], gap.left_nf) # "Greater"
    /\ user_idx' = user_idx + 1
    /\ UNCHANGED <<notMapVars,
                   inputVars, pc, op, result, chain, user, tree, leaf_count,
                   user_gap_mapping, gap_idx, gap, should_mark>>

\* lines 220-227: the user nullifier lies inside the gap.
FusedRecord ==
    /\ pc = "while"
    /\ user_idx < Len(user)
    /\ orchard_cmp(user[user_idx + 1], gap.left_nf) = "Greater"
    /\ orchard_cmp(user[user_idx + 1], gap.right_nf) = "Less"
    /\ should_mark' = TRUE
    /\ user_gap_mapping' = Append(user_gap_mapping,
            TreePosition_new(user[user_idx + 1], gap_idx, gap.left_nf, gap.right_nf).val)
    /\ user_idx' = user_idx + 1
    /\ UNCHANGED <<notMapVars,
                   inputVars, pc, op, result, chain, user, tree, leaf_count, gap_idx, gap>>

\* The while loop ends (no user nullifier left, or the break of line 217);
\* lines 230-235.
FusedGapEnd ==
    /\ pc = "while"
    /\ \/ user_idx >= Len(user)
       \/ /\ user_idx < Len(user)
          /\ orchard_cmp(user[user_idx + 1], gap.left_nf) = "Greater"
          /\ orchard_cmp(user[user_idx + 1], gap.right_nf) # "Less"
    /\ tree' = IF should_mark THEN BridgeTree_mark(tree) ELSE tree
    /\ leaf_count' = leaf_count + 1
    /\ gap_idx' = gap_idx + 1
    /\ pc' = "for"
    /\ UNCHANGED <<notMapVars,
                   inputVars, op, result, chain, user, user_gap_mapping, user_idx,
                   gap, should_mark>>

\* lines 238-250: checkpoint, root, result.
FusedFinish ==
    /\ pc = "for"
    /\ gap_idx >= num_gaps
    /\ pc' = "done"
    /\ LET t == [inner |-> tree, cached_root |-> BridgeTree_root(tree),
                 leaf_count |-> leaf_count]
       IN result' = IF op = "from_nullifiers" THEN Ok(t)
                    ELSE Ok(<<t, user_gap_mapping>>)
    /\ UNCHANGED <<inputVars, op, fusedVars, notMapVars>>

\* witness_bytes on the tree a fused build returned, for the position of any
\* of its leaves and for the first position past them.
SparseWitnessBytes ==
    /\ pc = "done"
    /\ op \in {"from_chain_and_user_nullifiers", "from_nullifiers"}
    /\ result.ok
    /\ sparse_witness = None
    /\ LET t == IF op = "from_nullifiers" THEN result.val ELSE result.val[1]
       IN \E p \in 0..t.leaf_count :
             /\ sparse_position' = p
             /\ sparse_witness' = Some(OrchardNonMembershipTree_witness_bytes(t, p))
    /\ UNCHANGED notQueryVars

NextMap ==
    \/ MapSapling
    \/ MapOrchard
    \/ BuildMerkleTree
    \/ BuildMerkleTreeSorted
    \/ \E with_user \in BOOLEAN : FusedBegin(with_user)
    \/ FusedGap
    \/ FusedSkip
    \/ FusedRecord
    \/ FusedGapEnd
    \/ FusedFinish
    \/ SparseWitnessBytes

notBundleVars == <<mapVars, denseVars, partitionVars, claimVars, readVars, configVars,
    queryVars, persistVars, cliVars,
    canonVars,
    taskVars,
    legacyVars,
    proofVars>>

notCanonVars == <<mapVars, denseVars, partitionVars, claimVars, readVars, configVars,
    queryVars, persistVars, cliVars, bundleVars,
    taskVars,
    legacyVars,
    proofVars>>

notTaskVars == <<mapVars, denseVars, partitionVars, claimVars, readVars, configVars,
    queryVars, persistVars, cliVars, bundleVars, canonVars,
    legacyVars,
    proofVars>>

notLegacyVars == <<mapVars, denseVars, partitionVars, claimVars, readVars, configVars,
    queryVars, persistVars, cliVars, bundleVars, canonVars, taskVars,
    proofVars>>

notProofVars == <<mapVars, denseVars, partitionVars, claimVars, readVars, configVars,
    queryVars, persistVars, cliVars, bundleVars, canonVars, taskVars, legacyVars>>

vars == <<mapVars, denseVars, partitionVars, claimVars, readVars, configVars, queryVars,
         persistVars, cliVars,
    bundleVars,
    canonVars,
    taskVars,
    legacyVars,
    proofVars>>

SpecMap == InitMap /\ [][NextMap]_vars

\* ========================================================= dense gap tree
\* Leaves of the dense tree: the empty leaf and a gap leaf.
DenseLeaves == {empty_leaf, leaf_from_nodes(0, 1)}

\* Zero leaves and 2^DEPTH leaves are handed in as well: both are refused.
LeafLists == UNION {[1..n -> DenseLeaves] : n \in 0..Pow(2, NON_MEMBERSHIP_TREE_DEPTH)}

InitDense ==
    /\ ProofIdle
    /\ LegacyIdle
    /\ TaskIdle
    /\ CanonIdle
    /\ BundleIdle
    /\ MapIdle
    /\ ConfigIdle
    /\ ReadIdle
    /\ PartitionIdle
    /\ ClaimIdle
    /\ leaves \in LeafLists
    /\ dense = None
    /\ leaf_position = 0
    /\ witness = None
    /\ sparse = None
    /\ serialized = None
    /\ bytes_in = <<>>
    /\ restored = None

DenseFromLeaves ==
    /\ dense = None
    /\ dense' = Some(DenseGapTree_from_leaves(leaves))
    /\ UNCHANGED <<leaves, leaf_position, witness, sparse, serialized, bytes_in, restored,
                   notDenseVars>>

DenseWitnessBytes ==
    /\ dense # None
    /\ dense[1].ok
    /\ witness = None
    /\ \E p \in 0..Pow(2, NON_MEMBERSHIP_TREE_DEPTH) :
          /\ leaf_position' = p
          /\ witness' = Some(DenseGapTree_witness_bytes(dense[1].val, p))
    /\ UNCHANGED <<leaves, dense, sparse, serialized, bytes_in, restored, notDenseVars>>

SparseFromLeaves ==
    /\ sparse = None
    /\ sparse' = Some(OrchardNonMembershipTree_from_leaves(leaves))
    /\ UNCHANGED <<leaves, dense, leaf_position, witness, serialized, bytes_in, restored,
                   notDenseVars>>

DenseToBytes ==
    /\ dense # None
    /\ dense[1].ok
    /\ serialized = None
    /\ serialized' = Some(DenseGapTree_to_bytes(dense[1].val))
    /\ UNCHANGED <<leaves, dense, leaf_position, witness, sparse, bytes_in, restored,
                   notDenseVars>>

\* Leaf counts a header may declare: none, every supported one, the first
\* refused one, and one that needs the header's second byte.
DeclaredCounts == 0..Pow(2, NON_MEMBERSHIP_TREE_DEPTH) \cup {256}

\* Files handed to from_bytes: what to_bytes wrote; that file cut short (to
\* less than a header, or by its last byte) or with a byte added; with its
\* last node missing or written twice; and with any other declared count.
FilesFrom(written) ==
    {written, SubSeq(written, 1, SERIALIZED_LEAF_COUNT_BYTES - 1),
     SubSeq(written, 1, Len(written) - 1), Append(written, 0),
     SubSeq(written, 1, Len(written) - SERIALIZED_NODE_BYTES),
     written \o SubSeq(written, Len(written) - SERIALIZED_NODE_BYTES + 1, Len(written))}
    \cup {to_le_bytes(n, SERIALIZED_LEAF_COUNT_BYTES)
              \o SubSeq(written, SERIALIZED_LEAF_COUNT_BYTES + 1, Len(written)) :
          n \in DeclaredCounts}

DenseFromBytes ==
    /\ serialized # None
    /\ restored = None
    /\ \E file \in FilesFrom(serialized[1]) :
          /\ bytes_in' = file
          /\ restored' = Some(DenseGapTree_from_bytes(file))
    /\ UNCHANGED <<leaves, dense, leaf_position, witness, sparse, serialized, notDenseVars>>

NextDense ==
    \/ DenseFromLeaves
    \/ DenseWitnessBytes
    \/ SparseFromLeaves
    \/ DenseToBytes
    \/ DenseFromBytes

SpecDense == InitDense /\ [][NextDense]_vars

\* ======================================================= partition_by_pool
\* Longest stream drawn as input.
MaxStream == 3

PoolNullifier(pool, nullifier) == [pool |-> pool, nullifier |-> nullifier]

\* What a stream yields: Ok(PoolNullifier) or Err(e).
StreamItems ==
    {Ok(PoolNullifier(pool, nf)) : pool \in {"Sapling", "Orchard"},
                                   nf \in {MIN_NF, EdgeNf(1, 0)}}
    \cup {Err("test error"), Err("other error")}

Streams == UNION {[1..n -> StreamItems] : n \in 0..MaxStream}

\* stream.try_next(): Ok(None) at the end, Ok(Some(item)) or the item's error.
try_next(items, position) ==
    IF position >= Len(items) THEN Ok(None)
    ELSE IF items[position + 1].ok THEN Ok(Some(items[position + 1].val))
    ELSE items[position + 1]

\* A loop body that logs a stream error and carries on.
partition_by_pool_iteration_lenient(next, sapling_buf, orchard_buf) ==
    IF ~next.ok
    THEN [sapling |-> sapling_buf, orchard |-> orchard_buf, returned |-> None]
    ELSE IF next.val = None
    THEN [sapling |-> sapling_buf, orchard |-> orchard_buf,
          returned |-> Some(Ok(<<sapling_buf, orchard_buf>>))]
    ELSE IF next.val[1].pool = "Sapling"
    THEN [sapling |-> Append(sapling_buf, next.val[1].nullifier), orchard |-> orchard_buf,
          returned |-> None]
    ELSE [sapling |-> sapling_buf, orchard |-> Append(orchard_buf, next.val[1].nullifier),
          returned |-> None]

\* One turn of `while let Some(nullifier) = stream.try_next().await?`, and the
\* final Ok((sapling, orchard)).
partition_by_pool_iteration(next, sapling_buf, orchard_buf) ==
    IF ~next.ok
    THEN [sapling |-> sapling_buf, orchard |-> orchard_buf, returned |-> Some(next)]
    ELSE IF next.val = None
    THEN [sapling |-> sapling_buf, orchard |-> orchard_buf,
          returned |-> Some(Ok(<<sapling_buf, orchard_buf>>))]
    ELSE IF next.val[1].pool = "Sapling"
    THEN [sapling |-> Append(sapling_buf, next.val[1].nullifier), orchard |-> orchard_buf,
          returned |-> None]
    ELSE [sapling |-> sapling_buf, orchard |-> Append(orchard_buf, next.val[1].nullifier),
          returned |-> None]

InitPartition ==
    /\ ProofIdle
    /\ LegacyIdle
    /\ TaskIdle
    /\ CanonIdle
    /\ BundleIdle
    /\ MapIdle
    /\ ConfigIdle
    /\ ReadIdle
    /\ DenseIdle
    /\ ClaimIdle
    /\ stream \in Streams
    /\ polled = 0
    /\ sapling = <<>>
    /\ orchard = <<>>
    /\ partition_result = None

\* The stream is polled once per turn; polling past its end yields None again.
PartitionPoll ==
    /\ partition_result = None
    /\ LET step == partition_by_pool_iteration(try_next(stream, polled), sapling, orchard)
       IN /\ sapling' = step.sapling
          /\ orchard' = step.orchard
          /\ partition_result' = step.returned
    /\ polled' = IF polled < Len(stream) THEN polled + 1 ELSE polled
    /\ UNCHANGED <<stream, notPartitionVars>>

NextPartition == PartitionPoll

SpecPartition == InitPartition /\ [][NextPartition]_vars

\* ============================================================== FileSource
\* Longest file drawn as input: two nullifiers and all but one byte of a third.
MaxFileLen == 3 * NULLIFIER_SIZE - 1

\* File contents: every byte differs from every other byte of the same and of
\* the other file, in ascending or descending blocks.
FileContents(base) ==
    UNION {{[i \in 1..n |-> base + i], [i \in 1..n |-> base + MaxFileLen + 1 - i]} :
              n \in 0..MaxFileLen}

FileInputs(base) == {None} \cup {Some(f) : f \in FileContents(base)}

\* FileSource::new keeps BUF_SIZE; with_buf_size takes any size.
BufSizes == {1, NULLIFIER_SIZE + 1, BUF_SIZE}

PoolOfFile(idx) == IF idx = 1 THEN "Sapling" ELSE "Orchard"

\* partition_by_pool run to its return over a finished stream.
RECURSIVE partition_by_pool(_, _, _, _)
partition_by_pool(items, position, sapling_buf, orchard_buf) ==
    LET step == partition_by_pool_iteration(try_next(items, position),
                                            sapling_buf, orchard_buf)
    IN IF step.returned # None THEN step.returned[1]
       ELSE partition_by_pool(items, position + 1, step.sapling, step.orchard)

InitRead ==
    /\ ProofIdle
    /\ LegacyIdle
    /\ TaskIdle
    /\ CanonIdle
    /\ BundleIdle
    /\ MapIdle
    /\ ConfigIdle
    /\ DenseIdle
    /\ PartitionIdle
    /\ ClaimIdle
    /\ sapling_file \in FileInputs(0)
    /\ orchard_file \in FileInputs(100)
    /\ buf_size \in BufSizes
    /\ read_pc = "file"
    /\ file_idx = 1
    /\ reader_pos = 0
    /\ buf = <<>>
    /\ leftover = 0
    /\ yielded = <<>>
    /\ pooled = None
    /\ loaded = <<>>

FileAt(idx) == IF idx = 1 THEN sapling_file ELSE orchard_file

\* nullifiers_stream: the next of the two files; a file that is configured is
\* opened and read_nullifiers starts on it with a zeroed buffer.
ReadOpen ==
    /\ read_pc = "file"
    /\ IF file_idx > 2
       THEN /\ read_pc' = "done"
            /\ UNCHANGED <<file_idx, reader_pos, buf, leftover>>
       ELSE IF FileAt(file_idx) = None
       THEN /\ file_idx' = file_idx + 1
            /\ UNCHANGED <<read_pc, reader_pos, buf, leftover>>
       ELSE /\ read_pc' = "loop"
            /\ reader_pos' = 0
            /\ buf' = [i \in 1..effective_buf_size(buf_size) |-> 0]
            /\ leftover' = 0
            /\ UNCHANGED file_idx
    /\ UNCHANGED <<sapling_file, orchard_file, buf_size, yielded, pooled, loaded, notReadVars>>

\* One pass of read_nullifiers' loop: the reader returns any number of bytes
\* from one to what is left and fits, and 0 when nothing is left or fits.
ReadPass ==
    /\ read_pc = "loop"
    /\ LET file == FileAt(file_idx)[1]
           remaining == Len(file) - reader_pos
           space == Len(buf) - leftover
           most == IF remaining < space THEN remaining ELSE space
       IN IF most = 0
          THEN /\ IF leftover > 0
                  THEN /\ yielded' = Append(yielded, Err(UnexpectedEof(leftover)))
                       /\ read_pc' = "done"
                       /\ UNCHANGED file_idx
                  ELSE /\ file_idx' = file_idx + 1
                       /\ read_pc' = "file"
                       /\ UNCHANGED yielded
               /\ UNCHANGED <<reader_pos, buf, leftover>>
          ELSE \E n \in 1..most :
                 LET data == SubSeq(file, reader_pos + 1, reader_pos + n)
                     pass == read_nullifiers_pass(buf, leftover, data)
                 IN /\ reader_pos' = reader_pos + n
                    /\ buf' = pass.buf
                    /\ leftover' = pass.leftover
                    /\ yielded' = yielded \o
                          [k \in 1..Len(pass.yield) |->
                              Ok(PoolNullifier(PoolOfFile(file_idx), pass.yield[k]))]
                    /\ UNCHANGED <<read_pc, file_idx>>
    /\ UNCHANGED <<sapling_file, orchard_file, buf_size, pooled, loaded, notReadVars>>

\* partition_by_pool on the stream of the file source.
ReadPartition ==
    /\ read_pc = "done"
    /\ pooled = None
    /\ pooled' = Some(partition_by_pool(yielded, 0, <<>>, <<>>))
    /\ UNCHANGED <<sapling_file, orchard_file, buf_size, read_pc, file_idx, reader_pos, buf,
                   leftover, yielded, loaded, notReadVars>>

\* load_nullifiers_from_file on the next of the two files, if it is configured.
LoadNullifiersFromFile ==
    /\ read_pc = "done"
    /\ Len(loaded) < 2
    /\ LET file == FileAt(Len(loaded) + 1)
       IN loaded' = Append(loaded, IF file = None THEN None
                                   ELSE Some(load_nullifiers_from_file(file[1])))
    /\ UNCHANGED <<sapling_file, orchard_file, buf_size, read_pc, file_idx, reader_pos, buf,
                   leftover, yielded, pooled, notReadVars>>

NextRead == ReadOpen \/ ReadPass \/ ReadPartition \/ LoadNullifiersFromFile

SpecRead == InitRead /\ [][NextRead]_vars

\* ------------------------------------- nullifier_source/file.rs (legacy)
\* buf[..n].chunks(NULLIFIER_SIZE): consecutive blocks, the last one shorter
\* when n is not a multiple of the block size.
chunks(bytes) ==
    [k \in 1..((Len(bytes) + NULLIFIER_SIZE - 1) \div NULLIFIER_SIZE) |->
        SubSeq(bytes, (k - 1) * NULLIFIER_SIZE + 1,
               IF k * NULLIFIER_SIZE < Len(bytes) THEN k * NULLIFIER_SIZE ELSE Len(bytes))]

\* lines 52-61: the chunks of the bytes just read that are a whole block.
legacy_yield(pool, bytes) ==
    LET whole == SelectSeq(chunks(bytes), LAMBDA chunk : Len(chunk) = NULLIFIER_SIZE)
    IN [k \in 1..Len(whole) |-> PoolNullifier(pool, whole[k])]

InitLegacy ==
    /\ ProofIdle
    /\ TaskIdle
    /\ CanonIdle
    /\ BundleIdle
    /\ ConfigIdle
    /\ MapIdle
    /\ DenseIdle
    /\ PartitionIdle
    /\ ClaimIdle
    /\ ReadIdle
    /\ legacy_files \in FileContents(0) \X FileContents(100)
    /\ legacy_pc = "file"
    /\ legacy_idx = 1
    /\ legacy_pos = 0
    /\ legacy_buf = [i \in 1..BUF_SIZE |-> 0]
    /\ legacy_yielded = <<>>

\* lines 40-45: the next of the two files is opened; after the second the
\* stream ends.
LegacyOpen ==
    /\ legacy_pc = "file"
    /\ IF legacy_idx > 2
       THEN legacy_pc' = "done"
       ELSE legacy_pc' = "loop"
    /\ legacy_pos' = 0
    /\ UNCHANGED <<legacy_files, legacy_idx, legacy_buf, legacy_yielded, notLegacyVars>>

\* lines 47-62, one turn of the loop: the reader returns any number of bytes
\* from one to what is left and fits, and 0 at the end of the file.
LegacyRead ==
    /\ legacy_pc = "loop"
    /\ LET file == legacy_files[legacy_idx]
           remaining == Len(file) - legacy_pos
           most == IF remaining < Len(legacy_buf) THEN remaining ELSE Len(legacy_buf)
       IN IF most = 0
          THEN /\ legacy_idx' = legacy_idx + 1
               /\ legacy_pc' = "file"
               /\ UNCHANGED <<legacy_pos, legacy_buf, legacy_yielded>>
          ELSE \E n \in 1..most :
                 LET filled == [i \in 1..Len(legacy_buf) |->
                                   IF i <= n THEN file[legacy_pos + i] ELSE legacy_buf[i]]
                 IN /\ legacy_buf' = filled
                    /\ legacy_pos' = legacy_pos + n
                    /\ legacy_yielded' = legacy_yielded
                          \o legacy_yield(PoolOfFile(legacy_idx), SubSeq(filled, 1, n))
                    /\ UNCHANGED <<legacy_pc, legacy_idx>>
    /\ UNCHANGED <<legacy_files, notLegacyVars>>

NextLegacy == LegacyOpen \/ LegacyRead

SpecLegacy == InitLegacy /\ [][NextLegacy]_vars

\* ====================================== write_nullifiers / read_nullifiers
\* Nullifiers in any order, with repeats; one more than a chain holds.
InitPersist ==
    /\ ProofIdle
    /\ LegacyIdle
    /\ TaskIdle
    /\ CanonIdle
    /\ BundleIdle
    /\ QueryIdle
    /\ CliIdle
    /\ chain_raw = <<>>
    /\ chain_nullifiers = <<>>
    /\ user_nullifiers = <<>>
    /\ pc = "idle"
    /\ op = "none"
    /\ result = None
    /\ FusedIdle
    /\ ConfigIdle
    /\ DenseIdle
    /\ PartitionIdle
    /\ ClaimIdle
    /\ ReadIdle
    /\ original \in RawLists(MaxChain + 1)
    /\ written_bytes = None
    /\ read_back = None

PersistWrite ==
    /\ written_bytes = None
    /\ written_bytes' = Some(write_nullifiers(original))
    /\ UNCHANGED <<original, read_back, notPersistVars>>

PersistRead ==
    /\ written_bytes # None
    /\ read_back = None
    /\ read_back' = Some(read_nullifiers(written_bytes[1]))
    /\ UNCHANGED <<original, written_bytes, notPersistVars>>

NextPersist == PersistWrite \/ PersistRead

SpecPersist == InitPersist /\ [][NextPersist]_vars

\* ==================================================== command-line parsers
\* Longest argument drawn as input.
MaxArgLen == 9

\* Arguments: strings of ASCII letters, by their bytes.
CliArgs == UNION {[1..n -> {97, 98}] : n \in 0..MaxArgLen}

InitCli ==
    /\ ProofIdle
    /\ LegacyIdle
    /\ TaskIdle
    /\ CanonIdle
    /\ BundleIdle
    /\ QueryIdle
    /\ PersistIdle
    /\ chain_raw = <<>>
    /\ chain_nullifiers = <<>>
    /\ user_nullifiers = <<>>
    /\ pc = "idle"
    /\ op = "none"
    /\ result = None
    /\ FusedIdle
    /\ ConfigIdle
    /\ DenseIdle
    /\ PartitionIdle
    /\ ClaimIdle
    /\ ReadIdle
    /\ cli_arg \in CliArgs
    /\ personalization = None
    /\ target_id = None

\* airdrop CLI: the value parser of the Sapling personalization option.
ParseSaplingPersonalization ==
    /\ personalization = None
    /\ personalization' = Some(parse_sapling_personalization(cli_arg))
    /\ UNCHANGED <<cli_arg, target_id, notCliVars>>

\* zair CLI: the value parser of the Sapling target id option.
ParseSaplingTargetId ==
    /\ target_id = None
    /\ target_id' = Some(parse_sapling_target_id(cli_arg))
    /\ UNCHANGED <<cli_arg, personalization, notCliVars>>

NextCli == ParseSaplingPersonalization \/ ParseSaplingTargetId

SpecCli == InitCli /\ [][NextCli]_vars

\* =========================================================== airdrop_claim
\* Largest block height drawn as input.
MaxHeight == 1

Pools == {"Sapling", "Orchard"}

\* hex::encode: two lower-case digits per byte, high nibble first.
HexDigits == <<"0", "1", "2", "3", "4", "5", "6", "7", "8", "9", "a", "b", "c", "d", "e", "f">>

RECURSIVE hex_encode(_)
hex_encode(bytes) ==
    IF bytes = <<>> THEN <<>>
    ELSE <<HexDigits[(Head(bytes) \div 16) + 1], HexDigits[(Head(bytes) % 16) + 1]>>
         \o hex_encode(Tail(bytes))

\* Roots a tree build may return: a node is as wide as a nullifier.
Roots == [1..NULLIFIER_SIZE -> {10, 171}]

\* Root strings a configuration file may hold: lower-case and upper-case hex.
UpperHexDigits ==
    <<"0", "1", "2", "3", "4", "5", "6", "7", "8", "9", "A", "B", "C", "D", "E", "F">>

RECURSIVE UpperHex(_)
UpperHex(bytes) ==
    IF bytes = <<>> THEN <<>>
    ELSE <<UpperHexDigits[(Head(bytes) \div 16) + 1], UpperHexDigits[(Head(bytes) % 16) + 1]>>
         \o UpperHex(Tail(bytes))

ConfigRoots == {None} \cup {Some(hex_encode(r)) : r \in Roots}
                      \cup {Some(UpperHex(r)) : r \in Roots}

\* A configuration with the two roots in each other's field.
AirdropConfiguration_swapped(sapling_root, orchard_root) ==
    [sapling_merkle_root |-> orchard_root, orchard_merkle_root |-> sapling_root]

\* AirdropConfiguration: the two roots (the snapshot range and the hiding
\* factors play no part in the steps modelled).
AirdropConfiguration(sapling_root, orchard_root) ==
    [sapling_merkle_root |-> sapling_root, orchard_merkle_root |-> orchard_root]

\* LoadedPoolData: the tree, known here by its root bytes.
LoadedPoolData(root) == [root |-> root]

\* build_pool_merkle_tree: no snapshot path, a load or build error, or a tree.
PoolBuilds ==
    {Ok(None), Err("load_nullifiers_from_file"), Err("from_chain_and_user_nullifiers")}
    \cup {Ok(Some(LoadedPoolData(r))) : r \in Roots}

\* What build_pool_merkle_tree started before it returned.
PoolBuildWork(built) ==
    IF built = Ok(None) THEN {}
    ELSE IF built = Err("load_nullifiers_from_file") THEN {"load"}
    ELSE {"load", "build"}

get_root(data, pool) ==
    IF data[pool] = None THEN None ELSE Some(hex_encode(data[pool][1].root))

\* A check that stops after the Sapling root.
verify_merkle_roots_sapling_only(config, data) ==
    IF config.sapling_merkle_root # get_root(data, "Sapling")
    THEN Err("Sapling merkle root mismatch with airdrop configuration")
    ELSE Ok(<<>>)

verify_merkle_roots(config, data) ==
    IF config.sapling_merkle_root # get_root(data, "Sapling")
    THEN Err("Sapling merkle root mismatch with airdrop configuration")
    ELSE IF config.orchard_merkle_root # get_root(data, "Orchard")
    THEN Err("Orchard merkle root mismatch with airdrop configuration")
    ELSE Ok(<<>>)

InitClaim ==
    /\ ProofIdle
    /\ LegacyIdle
    /\ TaskIdle
    /\ CanonIdle
    /\ BundleIdle
    /\ MapIdle
    /\ ConfigIdle
    /\ ReadIdle
    /\ DenseIdle
    /\ PartitionIdle
    /\ birthday_height \in 0..MaxHeight
    /\ snapshot_end \in 0..MaxHeight
    /\ input_files \in BOOLEAN
    /\ claim_pc = "ensure"
    /\ airdrop_config = None
    /\ pool_data = None
    /\ proofs_generated = FALSE
    /\ output_written = FALSE
    /\ claim_result = None
    /\ work_started = {}

ClaimFail(e) ==
    /\ claim_pc' = "done"
    /\ claim_result' = Some(Err(e))

\* lines 82-91: the two ensure! checks.
ClaimEnsure ==
    /\ claim_pc = "ensure"
    /\ IF birthday_height > snapshot_end
       THEN ClaimFail("Birthday height cannot be greater than the snapshot end height")
       ELSE IF input_files
       THEN ClaimFail("Airdrop claims can only be generated using lightwalletd as the source")
       ELSE claim_pc' = "find_user_notes" /\ UNCHANGED claim_result
    /\ UNCHANGED <<birthday_height, snapshot_end, input_files, airdrop_config, pool_data,
                   proofs_generated, output_written, work_started, notClaimVars>>

\* line 93, find_user_notes: the URL is missing; or lightwalletd is connected
\* to, and the connection fails; or the chain is scanned, and the scan fails
\* or delivers the notes.
ClaimFindUserNotes ==
    /\ claim_pc = "find_user_notes"
    /\ \E outcome \in {"no url", "connect failed", "scan failed", "scanned"} :
          /\ work_started' = work_started \cup
                 CASE outcome = "no url" -> {}
                   [] outcome = "connect failed" -> {"connect"}
                   [] OTHER -> {"connect", "scan"}
          /\ IF outcome = "scanned" THEN claim_pc' = "read_config" /\ UNCHANGED claim_result
             ELSE ClaimFail("find_user_notes")
    /\ UNCHANGED <<birthday_height, snapshot_end, input_files, airdrop_config, pool_data,
                   proofs_generated, output_written, notClaimVars>>

\* lines 99-100: the configuration file is read and parsed, or is not.
ClaimReadConfig ==
    /\ claim_pc = "read_config"
    /\ \/ /\ ClaimFail("airdrop configuration")
          /\ UNCHANGED airdrop_config
       \/ \E s \in ConfigRoots : \E o \in ConfigRoots :
             /\ airdrop_config' = Some(AirdropConfiguration(s, o))
             /\ claim_pc' = "collect_notes"
             /\ UNCHANGED claim_result
    /\ UNCHANGED <<birthday_height, snapshot_end, input_files, pool_data,
                   proofs_generated, output_written, work_started, notClaimVars>>

\* lines 107-169: the notes are sorted by pool; a hiding nullifier may fail.
ClaimCollectNotes ==
    /\ claim_pc = "collect_notes"
    /\ \E derived \in BOOLEAN :
          IF derived THEN claim_pc' = "build" /\ UNCHANGED claim_result
          ELSE ClaimFail("hiding_nullifier")
    /\ UNCHANGED <<birthday_height, snapshot_end, input_files, airdrop_config, pool_data,
                   proofs_generated, output_written, work_started, notClaimVars>>

\* lines 194-204: both pools are built; try_join! gives the error of a pool
\* that failed, else the two results go into pool_data.
ClaimBuildPools ==
    /\ claim_pc = "build"
    /\ \E sapling_result \in PoolBuilds : \E orchard_result \in PoolBuilds :
          /\ IF sapling_result.ok /\ orchard_result.ok
             THEN /\ pool_data' = Some([pool \in Pools |->
                                           IF pool = "Sapling" THEN sapling_result.val
                                           ELSE orchard_result.val])
                  /\ claim_pc' = "verify"
                  /\ UNCHANGED claim_result
             ELSE /\ \E failed \in {sapling_result, orchard_result} :
                        ~failed.ok /\ ClaimFail(failed.err)
                  /\ UNCHANGED pool_data
          /\ work_started' = work_started \cup PoolBuildWork(sapling_result)
                                          \cup PoolBuildWork(orchard_result)
    /\ UNCHANGED <<birthday_height, snapshot_end, input_files, airdrop_config,
                   proofs_generated, output_written, notClaimVars>>

\* line 207.
ClaimVerifyMerkleRoots ==
    /\ claim_pc = "verify"
    /\ LET verified == verify_merkle_roots(airdrop_config[1], pool_data[1])
       IN IF verified.ok THEN claim_pc' = "generate" /\ UNCHANGED claim_result
          ELSE ClaimFail(verified.err)
    /\ UNCHANGED <<birthday_height, snapshot_end, input_files, airdrop_config, pool_data,
                   proofs_generated, output_written, work_started, notClaimVars>>

\* lines 210-229: generate_user_proofs for every pool in pool_data.
ClaimGenerateProofs ==
    /\ claim_pc = "generate"
    /\ proofs_generated' = TRUE
    /\ claim_pc' = "write"
    /\ UNCHANGED <<birthday_height, snapshot_end, input_files, airdrop_config, pool_data,
                   output_written, claim_result, work_started, notClaimVars>>

\* lines 231-240: the output file is written, or the write fails.
ClaimWriteOutput ==
    /\ claim_pc = "write"
    /\ claim_pc' = "done"
    /\ \E written \in BOOLEAN :
          /\ output_written' = written
          /\ claim_result' = IF written THEN Some(Ok(<<>>)) ELSE Some(Err("write"))
    /\ UNCHANGED <<birthday_height, snapshot_end, input_files, airdrop_config, pool_data,
                   proofs_generated, work_started, notClaimVars>>

NextClaim ==
    \/ ClaimEnsure
    \/ ClaimFindUserNotes
    \/ ClaimReadConfig
    \/ ClaimCollectNotes
    \/ ClaimBuildPools
    \/ ClaimVerifyMerkleRoots
    \/ ClaimGenerateProofs
    \/ ClaimWriteOutput

SpecClaim == InitClaim /\ [][NextClaim]_vars

\* ============================================= build_airdrop_configuration
\* NonMembershipTree::from_nullifiers as process_pool sees it: an error or a
\* tree, known by its root.
TreeBuilds == {Err("from_nullifiers")} \cup {Ok(r) : r \in Roots}

InitConfig ==
    /\ ProofIdle
    /\ LegacyIdle
    /\ TaskIdle
    /\ CanonIdle
    /\ BundleIdle
    /\ MapIdle
    /\ DenseIdle
    /\ PartitionIdle
    /\ ClaimIdle
    /\ ReadIdle
    /\ config_stream \in Streams
    /\ config_pc = "fetch"
    /\ pool_nullifiers = NoPools
    /\ pool_roots = NoPools
    /\ snapshot_files = NoPools
    /\ config_file = None
    /\ config_result = None

ConfigFail(e) ==
    /\ config_pc' = "done"
    /\ config_result' = Some(Err(e))

\* get_nullifiers and partition_by_pool, then the two pools are sanitised and
\* handed to the two process_pool tasks.
ConfigFetch ==
    /\ config_pc = "fetch"
    /\ \E connected \in BOOLEAN :
          IF ~connected
          THEN ConfigFail("get_nullifiers") /\ UNCHANGED pool_nullifiers
          ELSE LET parts == partition_by_pool(config_stream, 0, <<>>, <<>>)
               IN IF ~parts.ok
                  THEN ConfigFail(parts.err) /\ UNCHANGED pool_nullifiers
                  ELSE /\ pool_nullifiers' =
                             [pool \in Pools |->
                                 Some(SanitiseNullifiers_new(
                                     IF pool = "Sapling" THEN parts.val[1]
                                     ELSE parts.val[2]))]
                       /\ config_pc' = "pools"
                       /\ UNCHANGED config_result
    /\ UNCHANGED <<config_stream, pool_roots, snapshot_files, config_file, notConfigVars>>

\* process_pool, one task per pool: nothing to do for an empty pool; else the
\* store is created, the nullifiers are written to it, the tree is built and
\* its root is returned in hex; each of the three may fail.
ConfigProcessPool ==
    /\ config_pc = "pools"
    /\ \E pool \in Pools :
          /\ pool_roots[pool] = None
          /\ LET nullifiers == pool_nullifiers[pool][1]
                 bytes == write_nullifiers(nullifiers)
             IN IF nullifiers = <<>>
                THEN /\ pool_roots' = [pool_roots EXCEPT ![pool] = Some(Ok(None))]
                     /\ UNCHANGED snapshot_files
                ELSE \/ /\ pool_roots' = [pool_roots EXCEPT ![pool] = Some(Err("File::create"))]
                        /\ UNCHANGED snapshot_files
                     \/ \E k \in 0..(Len(bytes) - 1) :
                           /\ pool_roots' =
                                 [pool_roots EXCEPT ![pool] = Some(Err("write_nullifiers"))]
                           /\ snapshot_files' =
                                 [snapshot_files EXCEPT ![pool] = Some(SubSeq(bytes, 1, k))]
                     \/ \E built \in TreeBuilds :
                           /\ snapshot_files' = [snapshot_files EXCEPT ![pool] = Some(bytes)]
                           /\ pool_roots' =
                                 [pool_roots EXCEPT ![pool] =
                                     IF built.ok THEN Some(Ok(Some(hex_encode(built.val))))
                                     ELSE Some(built)]
    /\ UNCHANGED <<config_stream, config_pc, pool_nullifiers, config_file, config_result,
                   notConfigVars>>

\* Both tasks are joined; the Sapling error, else the Orchard error, is
\* returned; else the configuration is exported, and the export may fail.
ConfigExport ==
    /\ config_pc = "pools"
    /\ \A pool \in Pools : pool_roots[pool] # None
    /\ LET sapling_root == pool_roots["Sapling"][1]
           orchard_root == pool_roots["Orchard"][1]
       IN IF ~sapling_root.ok THEN ConfigFail(sapling_root.err) /\ UNCHANGED config_file
          ELSE IF ~orchard_root.ok THEN ConfigFail(orchard_root.err) /\ UNCHANGED config_file
          ELSE \/ ConfigFail("export_config") /\ UNCHANGED config_file
               \/ /\ config_file' =
                        Some(AirdropConfiguration(sapling_root.val, orchard_root.val))
                  /\ config_pc' = "done"
                  /\ config_result' = Some(Ok(<<>>))
    /\ UNCHANGED <<config_stream, pool_nullifiers, pool_roots, snapshot_files, notConfigVars>>

NextConfig == ConfigFetch \/ ConfigProcessPool \/ ConfigExport

SpecConfig == InitConfig /\ [][NextConfig]_vars

\* ------------------------------- build_airdrop_configuration, task by task
\* The orchestrator from the two tokio::spawn calls on, each process_pool task
\* from one await to the next, and the spawn_blocking tree build of each.
\* A task spawned with tokio::spawn runs on when its JoinHandle is dropped, and
\* a spawn_blocking closure that has started runs to its end.
\* blocking[pool] is <<>> before the closure is spawned, <<"running">> while it
\* runs and <<"finished", result>> after.
TaskInputs == {<<>>, <<EdgeNf(1, 0)>>, <<EdgeNf(1, 0), MIN_NF>>}

EachPool(value) == [pool \in Pools |-> value]

Logged(log, pool, step) == [log EXCEPT ![pool] = Append(@, step)]

InitTask ==
    /\ ProofIdle
    /\ LegacyIdle
    /\ CanonIdle
    /\ BundleIdle
    /\ ConfigIdle
    /\ MapIdle
    /\ DenseIdle
    /\ PartitionIdle
    /\ ClaimIdle
    /\ ReadIdle
    /\ orch_pc = "spawn"
    /\ task_input \in [Pools -> TaskInputs]
    /\ task_nullifiers = NoPools
    /\ task_pc = EachPool("unspawned")
    /\ task_out = NoPools
    /\ blocking = NoPools
    /\ task_files = NoPools
    /\ task_config = <<>>
    /\ task_log = EachPool(<<>>)
    /\ task_finished = <<>>

\* lines 115-124: each pool's nullifiers are sanitised and moved into its task.
OrchSpawn ==
    /\ orch_pc = "spawn"
    /\ task_nullifiers' = [pool \in Pools |-> Some(SanitiseNullifiers_new(task_input[pool]))]
    /\ task_pc' = EachPool("start")
    /\ task_log' = EachPool(<<"sanitise">>)
    /\ orch_pc' = "join"
    /\ UNCHANGED <<task_input, task_out, blocking, task_files, task_config, task_finished,
                   notTaskVars>>

\* A process_pool task returns: its JoinHandle has the output.
TaskReturns(pool, output) ==
    /\ task_pc' = [task_pc EXCEPT ![pool] = "done"]
    /\ task_out' = [task_out EXCEPT ![pool] = Some(output)]
    /\ task_finished' = Append(task_finished, pool)

\* process_pool, lines 144-151: nothing to do for an empty pool; else
\* File::create(&store), which truncates the store or fails.
TaskCreate(pool) ==
    /\ task_pc[pool] = "start"
    /\ IF task_nullifiers[pool][1] = <<>>
       THEN TaskReturns(pool, Ok(None)) /\ UNCHANGED task_files
       ELSE \/ TaskReturns(pool, Err("File::create")) /\ UNCHANGED task_files
            \/ /\ task_files' = [task_files EXCEPT ![pool] = Some([writer |-> pool, bytes |-> <<>>])]
               /\ task_pc' = [task_pc EXCEPT ![pool] = "write"]
               /\ UNCHANGED <<task_out, task_finished>>
    /\ UNCHANGED <<orch_pc, task_input, task_nullifiers, blocking, task_config, task_log,
                   notTaskVars>>

\* lines 152-154: write_nullifiers to the store; a failure leaves a prefix.
TaskWrite(pool) ==
    /\ task_pc[pool] = "write"
    /\ LET bytes == write_nullifiers(task_nullifiers[pool][1])
       IN \/ \E k \in 0..(Len(bytes) - 1) :
                /\ task_files' = [task_files EXCEPT ![pool] =
                                     Some([writer |-> pool, bytes |-> SubSeq(bytes, 1, k)])]
                /\ TaskReturns(pool, Err("write_nullifiers"))
                /\ UNCHANGED task_log
          \/ /\ task_files' = [task_files EXCEPT ![pool] =
                                  Some([writer |-> pool, bytes |-> bytes])]
             /\ task_pc' = [task_pc EXCEPT ![pool] = "spawn_blocking"]
             /\ task_log' = Logged(task_log, pool, "persist")
             /\ UNCHANGED <<task_out, task_finished>>
    /\ UNCHANGED <<orch_pc, task_input, task_nullifiers, blocking, task_config, notTaskVars>>

\* lines 156-157: the tree build is handed to the blocking pool.
TaskSpawnBlocking(pool) ==
    /\ task_pc[pool] = "spawn_blocking"
    /\ blocking' = [blocking EXCEPT ![pool] = <<"running">>]
    /\ task_pc' = [task_pc EXCEPT ![pool] = "await"]
    /\ UNCHANGED <<orch_pc, task_input, task_nullifiers, task_out, task_files, task_config,
                   task_log, task_finished, notTaskVars>>

\* The closure of line 157: NonMembershipTree::from_nullifiers, to an error or a tree.
BlockingBuild(pool) ==
    /\ Len(blocking[pool]) = 1
    /\ \E built \in TreeBuilds : blocking' = [blocking EXCEPT ![pool] = <<"finished", built>>]
    /\ task_log' = Logged(task_log, pool, "build")
    /\ UNCHANGED <<orch_pc, task_input, task_nullifiers, task_pc, task_out, task_files,
                   task_config, task_finished, notTaskVars>>

\* lines 158-164: the build is joined, the root is taken and returned in hex.
TaskRoot(pool) ==
    /\ task_pc[pool] = "await"
    /\ Len(blocking[pool]) = 2
    /\ IF blocking[pool][2].ok
       THEN /\ TaskReturns(pool, Ok(Some(hex_encode(blocking[pool][2].val))))
            /\ task_log' = Logged(task_log, pool, "root")
       ELSE /\ TaskReturns(pool, blocking[pool][2])
            /\ UNCHANGED task_log
    /\ UNCHANGED <<orch_pc, task_input, task_nullifiers, blocking, task_files, task_config,
                   notTaskVars>>

\* lines 126-135: try_join! of the two JoinHandles completes when both tasks
\* have returned; the Sapling error, else the Orchard error, is returned; else
\* the configuration is exported, and the export may fail.
OrchJoin ==
    /\ orch_pc = "join"
    /\ \A pool \in Pools : task_out[pool] # None
    /\ LET sapling_root == task_out["Sapling"][1]
           orchard_root == task_out["Orchard"][1]
       IN IF ~sapling_root.ok \/ ~orchard_root.ok
          THEN orch_pc' = "failed" /\ UNCHANGED task_config
          ELSE \/ orch_pc' = "failed" /\ UNCHANGED task_config
               \/ /\ task_config' = Append(task_config,
                         AirdropConfiguration(sapling_root.val, orchard_root.val))
                  /\ orch_pc' = "done"
    /\ UNCHANGED <<task_input, task_nullifiers, task_pc, task_out, blocking, task_files,
                   task_log, task_finished, notTaskVars>>

\* The future of build_airdrop_configuration is dropped at its await of line
\* 126: the two JoinHandles are dropped with it.
OrchCancel ==
    /\ orch_pc = "join"
    /\ orch_pc' = "cancelled"
    /\ UNCHANGED <<task_input, task_nullifiers, task_pc, task_out, blocking, task_files,
                   task_config, task_log, task_finished, notTaskVars>>

NextTask ==
    \/ OrchSpawn
    \/ \E pool \in Pools : TaskCreate(pool)
    \/ \E pool \in Pools : TaskWrite(pool)
    \/ \E pool \in Pools : TaskSpawnBlocking(pool)
    \/ \E pool \in Pools : BlockingBuild(pool)
    \/ \E pool \in Pools : TaskRoot(pool)
    \/ OrchJoin
    \/ OrchCancel

SpecTask == InitTask /\ [][NextTask]_vars

\* ---------------------------------- airdrop_claim, from notes to proofs
\* Most found notes drawn as input.
MaxNotes == 2

\* A found note: its pool, its nullifier under the viewing key, and (Sapling)
\* whether its position in the commitment tree is known.
FoundNotes ==
    [pool : Pools, nullifier : {EdgeNf(1, 0), EdgeNf(0, 1)}, has_position : BOOLEAN]

NoteLists ==
    {notes \in UNION {[1..n -> FoundNotes] : n \in 0..MaxNotes} :
        \A k \in 1..Len(notes) : notes[k].pool = "Orchard" => notes[k].has_position}

\* NoteMetadata::Sapling / NoteMetadata::Orchard of the note at an index of
\* found_notes: the index stands for its commitment, height and hiding nullifier.
NoteMetadata(pool, index) == [pool |-> pool, note |-> index]

\* HashMap::insert: the value under an existing key is replaced.
HashMap_insert(map, key, value) ==
    [k \in DOMAIN map \cup {key} |-> IF k = key THEN value ELSE map[k]]

\* generate_user_proofs: for every TreePosition whose nullifier has metadata
\* and whose leaf has a witness, a NullifierProof of the metadata's variant.
RECURSIVE generate_user_proofs(_, _, _)
generate_user_proofs(witnessed, positions, metadata_map) ==
    IF positions = <<>> THEN <<>>
    ELSE LET tree_position == Head(positions)
             rest == generate_user_proofs(witnessed, Tail(positions), metadata_map)
         IN IF tree_position.nullifier \notin DOMAIN metadata_map THEN rest
            ELSE IF tree_position.leaf_position \notin witnessed THEN rest
            ELSE LET meta == metadata_map[tree_position.nullifier]
                 IN <<[block_height |-> meta.note,
                       hiding_nullifier |-> meta.note,
                       private_inputs |->
                           [pool |-> meta.pool,
                            nullifier |-> tree_position.nullifier,
                            left_nullifier |-> tree_position.left_bound,
                            right_nullifier |-> tree_position.right_bound,
                            leaf_position |-> tree_position.leaf_position]]>> \o rest

\* The TreePosition lists a pool's tree build may return for its user
\* nullifiers: one entry for each nullifier of any subset of them, in order
\* (the others are spent), at a leaf of its own.
PositionsOver(nullifiers) ==
    {LET kept == SelectSeq([k \in 1..Len(nullifiers) |-> k], LAMBDA k : k \in unspent)
     IN [j \in 1..Len(kept) |->
            TreePosition_new(nullifiers[kept[j]], kept[j] - 1, MIN_NF, MAX_NF).val] :
       unspent \in SUBSET (1..Len(nullifiers))}

InitProof ==
    /\ LegacyIdle
    /\ TaskIdle
    /\ CanonIdle
    /\ BundleIdle
    /\ ConfigIdle
    /\ MapIdle
    /\ DenseIdle
    /\ PartitionIdle
    /\ ClaimIdle
    /\ ReadIdle
    /\ found_notes \in NoteLists
    /\ viewing_keys \in [Pools -> BOOLEAN]
    /\ proof_pc = "notes"
    /\ note_idx = 0
    /\ user_nullifiers_by_pool = EachPool(<<>>)
    /\ note_metadata_map = <<>>
    /\ loaded_positions = NoPools
    /\ proofs_by_pool = NoPools

\* lines 107-169, one note: skipped without its pool's key or (Sapling)
\* without a position; else its metadata is kept under its nullifier and the
\* nullifier is pushed to its pool's list. The hiding nullifier may fail.
ProofCollectNote ==
    /\ proof_pc = "notes"
    /\ note_idx < Len(found_notes)
    /\ note_idx' = note_idx + 1
    /\ LET note == found_notes[note_idx + 1]
       IN IF ~viewing_keys[note.pool]
          THEN UNCHANGED <<proof_pc, note_metadata_map, user_nullifiers_by_pool>>
          ELSE \/ /\ proof_pc' = "failed"
                  /\ UNCHANGED <<note_metadata_map, user_nullifiers_by_pool>>
               \/ IF note.pool = "Sapling" /\ ~note.has_position
                  THEN UNCHANGED <<proof_pc, note_metadata_map, user_nullifiers_by_pool>>
                  ELSE /\ note_metadata_map' =
                             HashMap_insert(note_metadata_map, note.nullifier,
                                            NoteMetadata(note.pool, note_idx + 1))
                       /\ user_nullifiers_by_pool' =
                             [user_nullifiers_by_pool EXCEPT ![note.pool] =
                                 Append(@, note.nullifier)]
                       /\ UNCHANGED proof_pc
    /\ UNCHANGED <<found_notes, viewing_keys, loaded_positions, proofs_by_pool, notProofVars>>

\* lines 171-207: each pool's user nullifiers are sanitised and its tree is
\* built when a snapshot is given; a pool without one has no data.
ProofBuildPools ==
    /\ proof_pc = "notes"
    /\ note_idx >= Len(found_notes)
    /\ \E given \in [Pools -> BOOLEAN] :
       \E built \in [Pools -> UNION {PositionsOver(SanitiseNullifiers_new(
                                         user_nullifiers_by_pool[pool])) : pool \in Pools}] :
          /\ \A pool \in Pools :
                built[pool] \in PositionsOver(SanitiseNullifiers_new(
                                                 user_nullifiers_by_pool[pool]))
          /\ loaded_positions' =
                [pool \in Pools |-> IF given[pool] THEN Some(built[pool]) ELSE None]
    /\ proof_pc' = "proofs"
    /\ UNCHANGED <<found_notes, viewing_keys, note_idx, user_nullifiers_by_pool,
                   note_metadata_map, proofs_by_pool, notProofVars>>

\* lines 220-224, one pool of pool_data: its proofs go under its own key.
ProofGenerate ==
    /\ proof_pc = "proofs"
    /\ \E pool \in Pools :
          /\ loaded_positions[pool] # None
          /\ proofs_by_pool[pool] = None
          /\ \E witnessed \in SUBSET (0..(MaxNotes - 1)) :
                proofs_by_pool' =
                   [proofs_by_pool EXCEPT ![pool] =
                       Some(generate_user_proofs(witnessed, loaded_positions[pool][1],
                                                 note_metadata_map))]
    /\ UNCHANGED <<found_notes, viewing_keys, proof_pc, note_idx, user_nullifiers_by_pool,
                   note_metadata_map, loaded_positions, notProofVars>>

NextProof == ProofCollectNote \/ ProofBuildPools \/ ProofGenerate

SpecProof == InitProof /\ [][NextProof]_vars

\* ============================================== the serialised claim bundle
Reverse(bytes) == [i \in 1..Len(bytes) |-> bytes[Len(bytes) + 1 - i]]

\* The value of a hex digit of either case, or 16 for any other character.
HexDigitValue(digit) ==
    IF \E v \in 1..16 : HexDigits[v] = digit \/ UpperHexDigits[v] = digit
    THEN (CHOOSE v \in 1..16 : HexDigits[v] = digit \/ UpperHexDigits[v] = digit) - 1
    ELSE 16

\* hex::decode: two digits per byte, high nibble first.
RECURSIVE hex_decode(_)
hex_decode(digits) ==
    IF digits = <<>> THEN Ok(<<>>)
    ELSE IF Len(digits) = 1 THEN Err("OddLength")
    ELSE IF HexDigitValue(digits[1]) = 16 \/ HexDigitValue(digits[2]) = 16
    THEN Err("InvalidHexCharacter")
    ELSE LET rest == hex_decode(SubSeq(digits, 3, Len(digits)))
         IN IF ~rest.ok THEN rest
            ELSE Ok(<<16 * HexDigitValue(digits[1]) + HexDigitValue(digits[2])>> \o rest.val)

\* serde_with::hex::Hex: lower-case hex of the bytes as they are.
Hex_serialize(bytes) == hex_encode(bytes)

Hex_deserialize(digits) == hex_decode(digits)

\* ReversedHex: lower-case hex of the bytes in reverse order.
ReversedHex_serialize(bytes) == hex_encode(Reverse(bytes))

ReversedHex_deserialize(digits) ==
    LET decoded == hex_decode(digits)
    IN IF decoded.ok THEN Ok(Reverse(decoded.val)) ELSE decoded

ByteFields == {"nullifier", "note_commitment", "left_nullifier", "right_nullifier"}

\* #[serde_as(as = ...)] of each byte field of SaplingPrivateInputs and of
\* OrchardPrivateInputs.
FieldEncoding(pool, field) ==
    IF pool = "Sapling" THEN "ReversedHex"
    ELSE IF field = "note_commitment" THEN "Hex"
    ELSE "ReversedHex"

PrivateInputs_serialize(pool, inputs) ==
    [field \in ByteFields |->
        IF FieldEncoding(pool, field) = "Hex" THEN Hex_serialize(inputs[field])
        ELSE ReversedHex_serialize(inputs[field])]

PrivateInputs_deserialize(pool, json) ==
    LET decoded == [field \in ByteFields |->
                       IF FieldEncoding(pool, field) = "Hex" THEN Hex_deserialize(json[field])
                       ELSE ReversedHex_deserialize(json[field])]
    IN IF \A field \in ByteFields : decoded[field].ok
       THEN Ok([field \in ByteFields |-> decoded[field].val])
       ELSE Err("invalid hex")

\* Field values: no value reads the same in both directions of every case.
FieldBytes == [1..NULLIFIER_SIZE -> {1, 171}]

InitBundle ==
    /\ ProofIdle
    /\ LegacyIdle
    /\ TaskIdle
    /\ CanonIdle
    /\ MapIdle
    /\ DenseIdle
    /\ PartitionIdle
    /\ ClaimIdle
    /\ ReadIdle
    /\ ConfigIdle
    /\ bundle_pool \in Pools
    /\ bundle_inputs \in [ByteFields -> FieldBytes]
    /\ bundle_json = None
    /\ bundle_back = None

BundleSerialize ==
    /\ bundle_json = None
    /\ bundle_json' = Some(PrivateInputs_serialize(bundle_pool, bundle_inputs))
    /\ UNCHANGED <<bundle_pool, bundle_inputs, bundle_back, notBundleVars>>

BundleDeserialize ==
    /\ bundle_json # None
    /\ bundle_back = None
    /\ bundle_back' = Some(PrivateInputs_deserialize(bundle_pool, bundle_json[1]))
    /\ UNCHANGED <<bundle_pool, bundle_inputs, bundle_json, notBundleVars>>

NextBundle == BundleSerialize \/ BundleDeserialize

SpecBundle == InitBundle /\ [][NextBundle]_vars

\* ------------------------------------------------ canonicalisation, re-applied
\* The two chain canonicalisers (pool/orchard.rs and sparse/orchard.rs), each
\* applied to an arbitrary list and then to the bytes of its own output.
CanonFns == {"pool", "sparse"}

canonicalize(fn, nullifiers) ==
    IF fn = "pool" THEN pool_canonicalize_orchard_chain_nullifiers("chain", nullifiers)
    ELSE canonicalize_orchard_chain_nullifiers("chain", nullifiers)

InitCanon ==
    /\ ProofIdle
    /\ LegacyIdle
    /\ TaskIdle
    /\ MapIdle
    /\ DenseIdle
    /\ PartitionIdle
    /\ ClaimIdle
    /\ ReadIdle
    /\ ConfigIdle
    /\ BundleIdle
    /\ canon_fn \in CanonFns
    /\ canon_in \in RawLists(MaxChain + 1)
    /\ canon_out = <<>>

\* canonicalize(xs)
CanonApply ==
    /\ canon_out = <<>>
    /\ canon_out' = <<canonicalize(canon_fn, canon_in)>>
    /\ UNCHANGED <<canon_fn, canon_in, notCanonVars>>

\* canonicalize(canonicalize(xs)): the nullifiers of the first output go in again.
CanonReapply ==
    /\ Len(canon_out) = 1
    /\ canon_out[1].ok
    /\ canon_out' = Append(canon_out, canonicalize(canon_fn, BytesOf(canon_out[1].val)))
    /\ UNCHANGED <<canon_fn, canon_in, notCanonVars>>

NextCanon == CanonApply \/ CanonReapply

SpecCanon == InitCanon /\ [][NextCanon]_vars

\* =============================================================== claims
\* What the claims speak of, stated without the code's comparators: a byte
\* string as an integer, big-endian (its lexicographic rank) or little-endian
\* (the field representative).
RECURSIVE BeValueFrom(_, _)
BeValueFrom(bytes, index) ==
    IF index > Len(bytes) THEN 0
    ELSE bytes[index] * Pow(256, Len(bytes) - index) + BeValueFrom(bytes, index + 1)

BeValue(bytes) == BeValueFrom(bytes, 1)

PoolValue(pool, nf) == IF pool = "sapling" THEN BeValue(nf) ELSE LeValue(nf)

PoolMax(pool) == IF pool = "sapling" THEN MAX_NF ELSE to_repr(PallasModulus - 1)

NumCmp(a, b) == IF a < b THEN "Less" ELSE IF a > b THEN "Greater" ELSE "Equal"

IsCanonical(nf) == LeValue(nf) < PallasModulus

\* The elements of S in ascending pool order.
RECURSIVE Ascending(_, _)
Ascending(pool, S) ==
    IF S = {} THEN <<>>
    ELSE LET m == CHOOSE x \in S : \A y \in S : PoolValue(pool, x) <= PoolValue(pool, y)
         IN <<m>> \o Ascending(pool, S \ {m})

Below(pool, S, u) == {c \in S : PoolValue(pool, c) < PoolValue(pool, u)}

Above(pool, S, u) == {c \in S : PoolValue(pool, c) > PoolValue(pool, u)}

\* The gap of u in the set S: insertion index, left and right neighbour.
ExpectedPosition(pool, S, u) ==
    [nullifier |-> u,
     leaf_position |-> Cardinality(Below(pool, S, u)),
     left_bound |-> IF Below(pool, S, u) = {} THEN MIN_NF
                    ELSE CHOOSE c \in Below(pool, S, u) :
                            \A d \in Below(pool, S, u) : PoolValue(pool, d) <= PoolValue(pool, c),
     right_bound |-> IF Above(pool, S, u) = {} THEN PoolMax(pool)
                     ELSE CHOOSE c \in Above(pool, S, u) :
                            \A d \in Above(pool, S, u) : PoolValue(pool, c) <= PoolValue(pool, d)]

StrictlyBracketed(pool, tp) ==
    /\ PoolValue(pool, tp.left_bound) < PoolValue(pool, tp.nullifier)
    /\ PoolValue(pool, tp.nullifier) < PoolValue(pool, tp.right_bound)

ChainSet == Range(chain_nullifiers)

UserSet == Range(user_nullifiers)

MapDone(name) == pc = "done" /\ op = name /\ result.ok

PoolOfOp == IF op = "map_sapling_user_positions" THEN "sapling" ELSE "orchard"

\* The user mapping asked of the binary-search mappers, for a user nullifier
\* outside the chain set: one TreePosition, at the insertion index, with the
\* neighbours as bounds.
MapsToItsGap(pool, mapping, u) ==
    /\ Cardinality({k \in 1..Len(mapping) : mapping[k].nullifier = u}) = 1
    /\ \A k \in 1..Len(mapping) :
          mapping[k].nullifier = u => mapping[k] = ExpectedPosition(pool, ChainSet, u)

\* C1: for every user nullifier u outside the canonicalised chain set,
\* map_sapling_user_positions / map_orchard_user_positions return exactly one
\* TreePosition for u, at its insertion index, with the neighbouring bounds,
\* and the bounds bracket u strictly (left_bound < u < right_bound in the
\* pool's order).
C1_MapBracketsStrictly ==
    (MapDone("map_sapling_user_positions") \/ MapDone("map_orchard_user_positions")) =>
        \A u \in UserSet \ ChainSet :
            /\ MapsToItsGap(PoolOfOp, result.val, u)
            /\ \A k \in 1..Len(result.val) :
                  result.val[k].nullifier = u => StrictlyBracketed(PoolOfOp, result.val[k])

FusedOp == op \in {"from_chain_and_user_nullifiers", "from_nullifiers"}

FusedDone == pc = "done" /\ FusedOp /\ result.ok

\* The mapping an Ok result carries (from_nullifiers drops it).
ResultMapping ==
    IF op = "from_chain_and_user_nullifiers" THEN result.val[2]
    ELSE IF op = "from_nullifiers" THEN <<>>
    ELSE result.val

ResultTree == IF op = "from_nullifiers" THEN result.val ELSE result.val[1]

\* C2: a user nullifier that is in the chain set gets no TreePosition from
\* either mapper or from the fused build, and the fused build marks a leaf only
\* for a TreePosition it records (so a spent nullifier marks nothing).
C2_SpentIsDropped ==
    /\ FusedOp =>
          /\ \A k \in 1..Len(user_gap_mapping) :
                user_gap_mapping[k].nullifier \notin ChainSet
          /\ tree.marked \subseteq
                {user_gap_mapping[k].leaf_position : k \in 1..Len(user_gap_mapping)}
    /\ (pc = "done" /\ result.ok /\ op \in {"map_sapling_user_positions",
            "map_orchard_user_positions", "from_chain_and_user_nullifiers"}) =>
          /\ \A k \in 1..Len(ResultMapping) : ResultMapping[k].nullifier \notin ChainSet
          /\ (UserSet \subseteq ChainSet) => ResultMapping = <<>>
    /\ (FusedDone /\ UserSet \subseteq ChainSet) => ResultTree.inner.marked = {}

\* C2 witness: a finished fused build whose user set holds a spent nullifier
\* beside an unspent one.
C2_Witness ==
    /\ FusedDone
    /\ op = "from_chain_and_user_nullifiers"
    /\ UserSet \cap ChainSet # {}
    /\ ResultTree.inner.marked # {}

\* The gap leaves of a chain set, in field order.
ExpectedOrchardLeaves(S) ==
    LET c == Ascending("orchard", S)
        n == Len(c)
        left(i) == IF i = 0 THEN LeValue(MIN_NF) ELSE LeValue(c[i])
        right(i) == IF i = n THEN PallasModulus - 1 ELSE LeValue(c[i + 1])
    IN [k \in 1..(n + 1) |-> <<"MerkleCRH", ORCHARD_LEAF_HASH_LEVEL, left(k - 1), right(k - 1)>>]

\* C4: the root and leaf count of a built Orchard tree are a function of the
\* set of chain nullifiers alone: whatever the user set, whatever order and
\* multiplicity the chain entries were read in, and with or without marking.
C4_RootDependsOnChainSetOnly ==
    FusedDone =>
        /\ node_to_bytes(ResultTree.cached_root)
              = <<"repr", root_from(ExpectedOrchardLeaves(Range(chain_raw)), 0)>>
        /\ ResultTree.leaf_count = Cardinality(Range(chain_raw)) + 1

\* C4 witness: a tree built from a chain read with a duplicate or out of field
\* order, with a marked position.
C4_Witness ==
    /\ FusedDone
    /\ op = "from_chain_and_user_nullifiers"
    /\ Len(chain_raw) = 2
    /\ \/ chain_raw[1] = chain_raw[2]
       \/ LeValue(chain_raw[1]) > LeValue(chain_raw[2])
    /\ ResultTree.inner.marked # {}

\* C6: a non-empty sorted chain of n nullifiers gives n+1 leaves in gap order,
\* (MIN, C[0]), (C[i-1], C[i]), (C[n-1], MAX): for build_merkle_tree with
\* MAX = 0xFF..FF, and for the leaves of the fused Orchard build with
\* MAX = p-1, whose leaf_count is n+1.
C6_GapLeaves ==
    /\ (pc = "done" /\ op \in {"build_merkle_tree", "build_merkle_tree_sorted"}
            /\ result.ok /\ result.val.leaves # <<>>) =>
          LET c == IF op = "build_merkle_tree" THEN chain_raw
                   ELSE sort_unstable_by("byte", chain_raw)
              n == Len(c)
          IN /\ Len(result.val.leaves) = n + 1
             /\ \A i \in 0..n :
                   result.val.leaves[i + 1] =
                      <<"H", (IF i = 0 THEN MIN_NF ELSE c[i])
                             \o (IF i = n THEN MAX_NF ELSE c[i + 1])>>
    /\ (pc = "done" /\ op \in {"build_merkle_tree", "build_merkle_tree_sorted"}
            /\ result.ok) => (result.val.leaves = <<>> <=> chain_raw = <<>>)
    /\ (FusedDone /\ ChainSet # {}) =>
          /\ ResultTree.inner.leaves = ExpectedOrchardLeaves(ChainSet)
          /\ ResultTree.leaf_count = Cardinality(ChainSet) + 1

\* C6 witness: build_merkle_tree accepted two distinct nullifiers.
C6_Witness ==
    /\ pc = "done"
    /\ op = "build_merkle_tree"
    /\ result.ok
    /\ Len(chain_raw) = 2
    /\ chain_raw[1] # chain_raw[2]
    /\ Len(result.val.leaves) = 3

\* Non-decreasing in byte-lexicographic order.
AscendingBytes(s) == \A i \in 1..(Len(s) - 1) : BeValue(s[i]) <= BeValue(s[i + 1])

\* C7: build_merkle_tree returns Err(NotSorted), and no tree, exactly when its
\* input is non-empty and not in ascending byte-lexicographic order; the same
\* nullifiers are accepted once sorted.
C7_NotSortedIff ==
    /\ (pc = "done" /\ op = "build_merkle_tree") =>
          /\ (result = Err("NotSorted")) <=> (chain_raw # <<>> /\ ~AscendingBytes(chain_raw))
          /\ result.ok \/ result = Err("NotSorted")
    /\ (pc = "done" /\ op = "build_merkle_tree_sorted") => result.ok

\* C7 witness: an unsorted input was refused.
C7_Witness ==
    /\ pc = "done"
    /\ op = "build_merkle_tree"
    /\ result = Err("NotSorted")
    /\ Len(chain_raw) = 2

StrictlyAscendingByValue(s) ==
    \A i \in 1..(Len(s) - 1) : LeValue(s[i]) < LeValue(s[i + 1])

\* orchard_nf(v): the canonical bytes of the field element v.
orchard_nf(v) == to_repr(v % PallasModulus)

\* C8: orchard_cmp is the comparison of its arguments read as little-endian
\* integers (a total order), and canonicalisation, the binary search of
\* map_orchard_user_positions and the fused walk all rank by it: the
\* canonical sets ascend by value and every TreePosition sits at the number of
\* chain nullifiers of smaller value.
C8_OrchardOrderIsFieldOrder ==
    /\ \A a \in Range(chain_raw) \cup UserSet : \A b \in Range(chain_raw) \cup UserSet :
          /\ orchard_cmp(a, b) = NumCmp(LeValue(a), LeValue(b))
          /\ pool_orchard_cmp(a, b) = NumCmp(LeValue(a), LeValue(b))
    /\ (FusedOp /\ pc # "start") =>
          /\ StrictlyAscendingByValue(BytesOf(chain))
          /\ StrictlyAscendingByValue(user)
          /\ \A k \in 1..Len(user_gap_mapping) :
                user_gap_mapping[k] =
                    ExpectedPosition("orchard", ChainSet, user_gap_mapping[k].nullifier)
    /\ MapDone("map_orchard_user_positions") =>
          \A k \in 1..Len(result.val) :
              result.val[k] = ExpectedPosition("orchard", ChainSet, result.val[k].nullifier)

\* C8 witness: chain = [256], user = [1]: the fused build maps the user
\* nullifier to gap 0 with left = MIN and right = 256.
C8_Witness ==
    /\ FusedDone
    /\ op = "from_chain_and_user_nullifiers"
    /\ chain_nullifiers = <<orchard_nf(256)>>
    /\ user_nullifiers = <<orchard_nf(1)>>
    /\ ResultMapping = <<[nullifier |-> orchard_nf(1), leaf_position |-> 0,
                          left_bound |-> MIN_NF, right_bound |-> orchard_nf(256)]>>

\* The positions of the entries of s that are not canonical field encodings.
NonCanonicalAt(s) == {i \in 0..(Len(s) - 1) : ~IsCanonical(s[i + 1])}

Smallest(S) == CHOOSE i \in S : \A j \in S : i <= j

\* The user set an operation parses (from_nullifiers passes the empty set).
ParsedUser == IF op = "from_nullifiers" THEN <<>> ELSE user_nullifiers

\* C9: with a non-canonical Orchard nullifier in the chain or user set, the
\* tree build and the user mapping return NonCanonicalOrchardNullifier{set,
\* index} and nothing else: the chain set is judged first, set names the set
\* and index is the first non-canonical position of that set.
C9_NonCanonicalRejected ==
    (pc = "done" /\ (FusedOp \/ op = "map_orchard_user_positions")) =>
        /\ NonCanonicalAt(chain_nullifiers) # {} =>
              result = [ok |-> FALSE,
                        err |-> [kind |-> "NonCanonicalOrchardNullifier", set |-> "chain",
                                 index |-> Smallest(NonCanonicalAt(chain_nullifiers))]]
        /\ (NonCanonicalAt(chain_nullifiers) = {} /\ NonCanonicalAt(ParsedUser) # {}) =>
              result = [ok |-> FALSE,
                        err |-> [kind |-> "NonCanonicalOrchardNullifier", set |-> "user",
                                 index |-> Smallest(NonCanonicalAt(ParsedUser))]]
        /\ ~result.ok => (tree = BridgeTree_new /\ user_gap_mapping = <<>>)

\* C9 witness: the tree build refused a chain set with two non-canonical
\* entries, naming the first.
C9_Witness ==
    /\ pc = "done"
    /\ op = "from_chain_and_user_nullifiers"
    /\ Cardinality(NonCanonicalAt(chain_nullifiers)) = 2
    /\ NonCanonicalAt(user_nullifiers) # {}
    /\ ~result.ok
    /\ result.err.set = "chain"
    /\ result.err.index = 0

\* MerkleHashOrchard::from_bytes on a node's bytes.
node_from_bytes(bytes) == bytes[2]

\* The root recomputed from a leaf and its siblings: the sibling goes on the
\* right when the index at that level is even, on the left when it is odd.
RECURSIVE FoldWitness(_, _, _, _)
FoldWitness(node, index, level, siblings) ==
    IF level >= Len(siblings) THEN node
    ELSE LET sibling == node_from_bytes(siblings[level + 1])
             here == node_from_bytes(node)
             parent == IF index % 2 = 0 THEN combine(level, here, sibling)
                       ELSE combine(level, sibling, here)
         IN FoldWitness(node_to_bytes(parent), index \div 2, level + 1, siblings)

\* C3: for a dense tree built by from_leaves from n leaves (1 <= n < 2^D) and
\* a position p < n, witness_bytes(p) returns exactly D siblings, and folding
\* leaf p upward with them reproduces root_bytes().
C3_DenseWitnessFolds ==
    (dense # None /\ witness # None /\ leaf_position < Len(leaves)) =>
        /\ dense[1].ok
        /\ 1 <= Len(leaves)
        /\ Len(leaves) < Pow(2, NON_MEMBERSHIP_TREE_DEPTH)
        /\ witness[1].ok
        /\ Len(witness[1].val) = NON_MEMBERSHIP_TREE_DEPTH
        /\ FoldWitness(node_to_bytes(leaves[leaf_position + 1]), leaf_position, 0,
                       witness[1].val)
              = DenseGapTree_root_bytes(dense[1].val)

\* C3 witness: a witness for the last of three leaves, whose sibling at level 0
\* is the empty root and whose sibling at level 1 is a stored node.
C3_Witness ==
    /\ dense # None
    /\ witness # None
    /\ Len(leaves) = 3
    /\ leaf_position = 2
    /\ witness[1].ok
    /\ witness[1].val[1] = empty_root_bytes(0)
    /\ witness[1].val[2] = DenseGapTree_node_at(dense[1].val, 1, 0)

\* The nullifiers of the Ok items tagged with pool, in stream order.
RECURSIVE Tagged(_, _)
Tagged(items, pool) ==
    IF items = <<>> THEN <<>>
    ELSE IF Head(items).ok /\ Head(items).val.pool = pool
         THEN <<Head(items).val.nullifier>> \o Tagged(Tail(items), pool)
         ELSE Tagged(Tail(items), pool)

ErrorsAt(items) == {i \in 1..Len(items) : ~items[i].ok}

\* C10: partition_by_pool returns Ok((sapling, orchard)) exactly when the
\* stream yields no error, and then the two vectors are the Sapling-tagged and
\* Orchard-tagged nullifiers in stream order; otherwise it returns the first
\* error, and no item after that error is polled.
C10_PartitionByPool ==
    /\ partition_result # None =>
          /\ partition_result[1].ok <=> ErrorsAt(stream) = {}
          /\ partition_result[1].ok =>
                /\ partition_result[1].val = <<Tagged(stream, "Sapling"),
                                               Tagged(stream, "Orchard")>>
                /\ polled = Len(stream)
          /\ ~partition_result[1].ok =>
                /\ partition_result[1] = stream[Smallest(ErrorsAt(stream))]
                /\ polled = Smallest(ErrorsAt(stream))
    /\ ErrorsAt(stream) # {} => polled <= Smallest(ErrorsAt(stream))

\* C10 witness: the first of two errors was returned with an item unread
\* behind it and a nullifier already buffered.
C10_Witness ==
    /\ partition_result # None
    /\ Len(stream) = 3
    /\ stream[1].ok
    /\ stream[2] = Err("test error")
    /\ stream[3] = Err("other error")
    /\ partition_result[1] = Err("test error")
    /\ polled = 2

\* The Ok case: an interleaved stream was split in two.
C10_WitnessOk ==
    /\ partition_result # None
    /\ partition_result[1].ok
    /\ Len(partition_result[1].val[1]) = 1
    /\ Len(partition_result[1].val[2]) = 2

\* The value of a lower-case hex digit; no value for any other character.
LowerHexValue(c) ==
    IF \E v \in 0..15 : HexDigits[v + 1] = c
    THEN CHOOSE v \in 0..15 : HexDigits[v + 1] = c
    ELSE 0 - 1

\* text is the lower-case hex of bytes.
IsHexOf(text, bytes) ==
    /\ Len(text) = 2 * Len(bytes)
    /\ \A i \in 1..Len(bytes) :
          /\ LowerHexValue(text[2 * i - 1]) >= 0
          /\ LowerHexValue(text[2 * i]) >= 0
          /\ 16 * LowerHexValue(text[2 * i - 1]) + LowerHexValue(text[2 * i]) = bytes[i]

ConfigRoot(pool) ==
    IF pool = "Sapling" THEN airdrop_config[1].sapling_merkle_root
    ELSE airdrop_config[1].orchard_merkle_root

\* The configuration's root of a pool and the reconstructed one are both
\* absent, or both present and equal.
RootsAgree(pool) ==
    \/ ConfigRoot(pool) = None /\ pool_data[1][pool] = None
    \/ /\ ConfigRoot(pool) # None
       /\ pool_data[1][pool] # None
       /\ IsHexOf(ConfigRoot(pool)[1], pool_data[1][pool][1].root)

RootMismatch ==
    {Some(Err("Sapling merkle root mismatch with airdrop configuration")),
     Some(Err("Orchard merkle root mismatch with airdrop configuration"))}

\* C5: airdrop_claim generates proofs and writes the output file only if, for
\* both pools, the configuration's root equals the reconstructed one (both
\* absent, or both present and equal); when the roots of a pool disagree it
\* ends with a root-mismatch error, no proof generated and no output written.
C5_RootsVerifiedBeforeOutput ==
    /\ (proofs_generated \/ output_written) =>
          /\ pool_data # None
          /\ \A pool \in Pools : RootsAgree(pool)
    /\ (claim_pc = "done" /\ pool_data # None /\ \E pool \in Pools : ~RootsAgree(pool)) =>
          /\ claim_result \in RootMismatch
          /\ ~proofs_generated
          /\ ~output_written
    /\ (claim_result \in RootMismatch) => \E pool \in Pools : ~RootsAgree(pool)

\* C5 witness: the output was written with one pool's roots present and equal
\* and the other pool's absent on both sides.
C5_Witness ==
    /\ output_written
    /\ airdrop_config[1].sapling_merkle_root # None
    /\ airdrop_config[1].orchard_merkle_root = None
    /\ pool_data[1]["Sapling"] # None

\* The refusal: the Sapling roots agree, the Orchard roots differ in one byte.
C5_WitnessMismatch ==
    /\ claim_pc = "done"
    /\ pool_data # None
    /\ RootsAgree("Sapling")
    /\ ConfigRoot("Orchard") # None
    /\ pool_data[1]["Orchard"] # None
    /\ claim_result = Some(Err("Orchard merkle root mismatch with airdrop configuration"))


\* ------------------------------------------------------------------- C11
\* The Ok items the stream has yielded for one pool, in order.
ItemsOf(pool) ==
    LET IsOf(item) == item.ok /\ item.val.pool = pool
        kept == SelectSeq(yielded, IsOf)
    IN [k \in 1..Len(kept) |-> kept[k].val.nullifier]

\* The consecutive whole blocks of a byte sequence.
Blocks(bytes) ==
    [k \in 1..(Len(bytes) \div NULLIFIER_SIZE) |->
        [i \in 1..NULLIFIER_SIZE |-> bytes[(k - 1) * NULLIFIER_SIZE + i]]]

WholeBlocks(idx) == FileAt(idx) # None /\ Len(FileAt(idx)[1]) % NULLIFIER_SIZE = 0

NoErrorYielded == \A k \in 1..Len(yielded) : yielded[k].ok

\* C11: a file whose length is a multiple of the nullifier size is read, for
\* every chunking of the reads and every buffer size, into exactly its
\* consecutive blocks, each once and in order, and reading it never ends in an
\* error: the stream stops before its last file only on a file of another length.
C11_WholeFileYieldsItsBlocks ==
    /\ \A idx \in 1..2 :
          (read_pc # "idle" /\ WholeBlocks(idx)) =>
             /\ file_idx > idx => ItemsOf(PoolOfFile(idx)) = Blocks(FileAt(idx)[1])
             /\ file_idx = idx => read_pc # "done"
             /\ (file_idx = idx /\ read_pc = "loop" /\ reader_pos = Len(FileAt(idx)[1]))
                   => /\ leftover = 0
                      /\ ItemsOf(PoolOfFile(idx)) = Blocks(FileAt(idx)[1])
    /\ (read_pc # "idle" /\ \A idx \in 1..2 : FileAt(idx) = None \/ WholeBlocks(idx))
          => NoErrorYielded

\* C11 witness: both files hold two nullifiers, the buffer size was raised from
\* 1, and the stream has ended after yielding all four.
C11_Witness ==
    /\ read_pc = "done"
    /\ file_idx = 3
    /\ buf_size = 1
    /\ \A idx \in 1..2 : WholeBlocks(idx) /\ Len(FileAt(idx)[1]) = 2 * NULLIFIER_SIZE
    /\ Len(yielded) = 4

\* C11 witness: a read stopped inside a nullifier of a whole-block file, so
\* bytes are carried over to the next pass.
C11_WitnessCarry ==
    /\ read_pc = "loop"
    /\ WholeBlocks(file_idx)
    /\ leftover > 0
    /\ reader_pos > NULLIFIER_SIZE


\* ------------------------------------------------------------------- C12
BrokenFile(idx) == FileAt(idx) # None /\ Len(FileAt(idx)[1]) % NULLIFIER_SIZE # 0

\* The first file the stream cannot read to its end.
FirstBroken(idx) == BrokenFile(idx) /\ \A j \in 1..(idx - 1) : ~BrokenFile(j)

ErrorsYielded == {k \in 1..Len(yielded) : ~yielded[k].ok}

\* C12: a file whose length is not a multiple of the nullifier size makes the
\* readers fail.  load_nullifiers_from_file (read_nullifiers) returns
\* InvalidData and nothing else; the stream yields the file's whole blocks as
\* Ok, then one UnexpectedEof as its last item, and goes no further; and
\* partition_by_pool on that stream returns that error and no vectors.
C12_BrokenFileFails ==
    \A idx \in 1..2 :
       /\ (BrokenFile(idx) /\ Len(loaded) >= idx)
             => loaded[idx] = Some(Err(InvalidData(Len(FileAt(idx)[1]))))
       /\ (FirstBroken(idx) /\ read_pc # "idle") =>
             /\ file_idx <= idx
             /\ (read_pc = "done") =>
                   /\ file_idx = idx
                   /\ ErrorsYielded = {Len(yielded)}
                   /\ yielded[Len(yielded)]
                         = Err(UnexpectedEof(Len(FileAt(idx)[1]) % NULLIFIER_SIZE))
                   /\ ItemsOf(PoolOfFile(idx)) = Blocks(FileAt(idx)[1])
             /\ (pooled # None) =>
                   pooled[1] = Err(UnexpectedEof(Len(FileAt(idx)[1]) % NULLIFIER_SIZE))

\* C12 witness: the Sapling file holds two nullifiers and part of a third; the
\* stream yielded the two and the error, partition_by_pool returned, and both
\* files were loaded.
C12_Witness ==
    /\ sapling_file # None
    /\ Len(sapling_file[1]) = MaxFileLen
    /\ orchard_file # None
    /\ read_pc = "done"
    /\ Len(yielded) = 3
    /\ pooled # None
    /\ Len(loaded) = 2


\* ------------------------------------------------------------------- C13
\* C13: when airdrop_claim fails on the birthday height or on the
\* configuration file, it has started no lightwalletd connection, chain scan,
\* snapshot load or tree build.
C13_BadInputsFailBeforeWork ==
    (claim_result \in {Some(Err("airdrop configuration")),
                       Some(Err("Birthday height cannot be greater than the snapshot end height"))})
       => work_started = {}


\* ------------------------------------------------------------------- C14
\* C14: when build_airdrop_configuration has failed, the run has emitted no
\* file: neither snapshot file and no configuration file exists because of it.
C14_NoFileOnFailure ==
    (config_result # None /\ ~config_result[1].ok)
       => /\ \A pool \in Pools : snapshot_files[pool] = None
          /\ config_file = None

\* ------------------------------------------------------------------- C15
\* C15: a configuration that was exported holds at least one of the two roots.
C15_ExportedConfigHasRoot ==
    config_file # None
       => (config_file[1].sapling_merkle_root # None
           \/ config_file[1].orchard_merkle_root # None)


\* ------------------------------------------------------------------- C16
LeafCountSupported(n) == 1 <= n /\ n < Pow(2, NON_MEMBERSHIP_TREE_DEPTH)

\* C16: the constructors return a tree for exactly the leaf counts n with
\* 1 <= n < 2^DEPTH, and the error LeavesOverflow(n) for every other count.
C16_LeafCountRange ==
    \A built \in {dense, sparse} :
       built # None =>
          IF LeafCountSupported(Len(leaves)) THEN built[1].ok
          ELSE built[1] = Err(LeavesOverflow(Len(leaves)))


\* ------------------------------------------------------------------- C17
\* The tree the fused build returned.
BuiltTree == IF op = "from_nullifiers" THEN result.val ELSE result.val[1]

\* C17: asking for the witness of a position that cannot be witnessed returns
\* NotMarked(p): in the dense tree for p >= leaf_count, in the sparse tree for
\* a position that was not marked during the build.
C17_UnwitnessableIsNotMarked ==
    /\ (witness # None /\ leaf_position >= dense[1].val.leaf_count)
          => witness[1] = Err(NotMarked(leaf_position))
    /\ (sparse_witness # None /\ sparse_position \notin BuiltTree.inner.marked)
          => sparse_witness[1] = Err(NotMarked(sparse_position))


\* ------------------------------------------------------------------- C18
\* The levels of the tree over the leaves, lowest first, as node arrays.
RECURSIVE LevelOrder(_, _)
LevelOrder(current, level) ==
    [i \in 1..Len(current) |-> node_to_bytes(current[i])]
    \o (IF level = NON_MEMBERSHIP_TREE_DEPTH THEN <<>>
        ELSE LevelOrder(next_level(current, level), level + 1))

\* Byte k of the file, counted from 0 after the header, is byte (k mod width)
\* of node (k div width).
PayloadOf(nodes) ==
    [k \in 1..(Len(nodes) * SERIALIZED_NODE_BYTES) |->
        <<nodes[((k - 1) \div SERIALIZED_NODE_BYTES) + 1],
          ((k - 1) % SERIALIZED_NODE_BYTES) + 1>>]

LeHeader(n) ==
    [i \in 1..SERIALIZED_LEAF_COUNT_BYTES |-> IF i = 1 THEN n % 256 ELSE 0]

\* C18: to_bytes of a tree built by from_leaves is the 8-byte little-endian
\* leaf count followed by every node in level order, and from_bytes of those
\* bytes returns a tree equal to it in leaf count, level widths and offsets,
\* nodes and root.
C18_DenseRoundTrip ==
    /\ serialized # None =>
          serialized[1] = LeHeader(Len(leaves)) \o PayloadOf(LevelOrder(leaves, 0))
    /\ (restored # None /\ bytes_in = serialized[1]) =>
          /\ restored[1].ok
          /\ \A field \in {"leaf_count", "leaf_count_u64", "level_widths", "level_offsets",
                           "nodes", "root"} :
                restored[1].val[field] = dense[1].val[field]

\* C18 witness: a tree of three leaves, two levels above them, was written
\* and read back.
C18_Witness ==
    /\ Len(leaves) = 3
    /\ restored # None
    /\ bytes_in = serialized[1]
    /\ restored[1].ok


\* ------------------------------------------------------------------- C19
\* C19: write_nullifiers writes NULLIFIER_SIZE bytes for each nullifier, and
\* read_nullifiers on those bytes returns the nullifiers that were written, in
\* the order they were written, sorted or not.
C19_PersistRoundTrip ==
    /\ written_bytes # None => Len(written_bytes[1]) = NULLIFIER_SIZE * Len(original)
    /\ read_back # None => read_back[1] = Ok(original)

\* C19 witness: nullifiers out of order and with a repeat were written and
\* read back.
C19_Witness ==
    /\ read_back # None
    /\ Len(original) = MaxChain + 1
    /\ ~is_sorted(original)
    /\ \E i \in 1..Len(original) : \E j \in 1..Len(original) :
          i # j /\ original[i] = original[j]

\* C19 witness: the empty sequence was written and read back.
C19_WitnessEmpty ==
    /\ read_back # None
    /\ original = <<>>


\* ------------------------------------------------------------------- C20
\* C20: a Sapling personalization that either command-line parser accepts is
\* exactly 8 bytes long.
C20_AcceptedPersonalizationIsEightBytes ==
    /\ (personalization # None /\ personalization[1].ok)
          => Len(personalization[1].val) = SAPLING_PERSONALIZATION_BYTES
    /\ (target_id # None /\ target_id[1].ok)
          => Len(target_id[1].val) = SAPLING_PERSONALIZATION_BYTES


\* ------------------------------------------------------------------- C21
\* C21: in the serialised bundle every Sapling byte field is the lower-case
\* hex of its bytes reversed, every Orchard byte field is the lower-case hex
\* of its bytes as they are, and decoding gives back the bytes.
C21_BundleFieldEncoding ==
    /\ bundle_json # None =>
          \A field \in ByteFields :
             bundle_json[1][field] =
                IF bundle_pool = "Sapling" THEN hex_encode(Reverse(bundle_inputs[field]))
                ELSE hex_encode(bundle_inputs[field])
    /\ bundle_back # None => bundle_back[1] = Ok(bundle_inputs)

\* C22: for every list xs of canonical Orchard nullifiers, canonicalize(xs) is
\* strictly ascending under the field order, holds exactly the distinct
\* elements of xs, and canonicalising its output again changes nothing.
C22_CanonicalizeIdempotent ==
    (canon_out # <<>> /\ \A i \in 1..Len(canon_in) : IsCanonical(canon_in[i])) =>
        /\ canon_out[1].ok
        /\ StrictlyAscendingByValue(BytesOf(canon_out[1].val))
        /\ Range(BytesOf(canon_out[1].val)) = Range(canon_in)
        /\ \A i \in 1..Len(canon_out[1].val) :
              canon_out[1].val[i].node = LeValue(canon_out[1].val[i].bytes)
        /\ Len(canon_out) = 2 => canon_out[2] = canon_out[1]

\* An unsorted list with a repeated element, canonicalised twice.
C22_Witness ==
    /\ Len(canon_out) = 2
    /\ Len(canon_in) = 3
    /\ Cardinality(Range(canon_in)) = 2
    /\ \A i \in 1..3 : IsCanonical(canon_in[i])
    /\ LeValue(canon_in[1]) > LeValue(canon_in[2])
    /\ canon_in[3] = canon_in[1]

\* The bounds of gap g of the chain set S, in field order.
GapBoundsOf(S, g) ==
    LET c == Ascending("orchard", S)
    IN [left |-> IF g = 0 THEN MIN_NF ELSE c[g],
        right |-> IF g = Len(c) THEN PoolMax("orchard") ELSE c[g + 1]]

InsideGap(S, g, u) ==
    /\ LeValue(GapBoundsOf(S, g).left) < LeValue(u)
    /\ LeValue(u) < LeValue(GapBoundsOf(S, g).right)

\* What a finished fused build returned.
C23_WalkResult ==
    (FusedDone /\ op = "from_chain_and_user_nullifiers") =>
        /\ \A j \in 1..Len(ResultMapping) : \A k \in 1..Len(ResultMapping) :
              j # k => ResultMapping[j].nullifier # ResultMapping[k].nullifier
        /\ \A g \in 0..Cardinality(ChainSet) :
              (g \in ResultTree.inner.marked) <=> (\E u \in UserSet : InsideGap(ChainSet, g, u))
        /\ ResultTree.inner.marked \subseteq 0..Cardinality(ChainSet)
        /\ \A k \in 1..Len(ResultMapping) :
              /\ ResultMapping[k].nullifier \in UserSet
              /\ ResultMapping[k].leaf_position \in ResultTree.inner.marked
              /\ ResultMapping[k].left_bound =
                    GapBoundsOf(ChainSet, ResultMapping[k].leaf_position).left
              /\ ResultMapping[k].right_bound =
                    GapBoundsOf(ChainSet, ResultMapping[k].leaf_position).right

\* What every step of the walk does to the user index: it never goes back, and
\* every turn of the inner loop that stays in the loop moves it one forward,
\* within the user list (so the loop ends after at most |user| turns).
C23_WalkStep ==
    /\ user_idx' \in {user_idx, user_idx + 1}
    /\ user_idx' <= Len(user')
    /\ (pc = "while" /\ pc' = "while") => user_idx' = user_idx + 1
    /\ Len(user_gap_mapping') > Len(user_gap_mapping) =>
          /\ user_idx' = user_idx + 1
          /\ user_gap_mapping' = Append(user_gap_mapping, user_gap_mapping'[Len(user_gap_mapping')])
          /\ user_gap_mapping'[Len(user_gap_mapping')].nullifier = user[user_idx + 1]

\* C23: in the fused build the user index only advances, every turn of the
\* inner loop consumes one user nullifier (so the loop terminates), each user
\* nullifier is in the returned mapping at most once, a leaf is marked exactly
\* when a user nullifier lies strictly inside its gap, and every returned
\* TreePosition names a marked leaf and carries that gap's bounds.
C23_FusedWalk == [](C23_WalkResult) /\ [][C23_WalkStep]_vars

\* C23 witness: a finished walk over two chain nullifiers that skipped a user
\* nullifier, recorded another, and left a gap unmarked.
C23_Witness ==
    /\ FusedDone
    /\ op = "from_chain_and_user_nullifiers"
    /\ Cardinality(ChainSet) = 2
    /\ Len(user) = 2
    /\ Len(ResultMapping) = 1
    /\ ResultTree.inner.marked # {}
    /\ ResultTree.inner.marked # 0..2

\* C24: for every canonical chain set and user set, the TreePosition list of
\* from_chain_and_user_nullifiers equals the list of map_orchard_user_positions
\* (same entries, same order), user nullifiers equal to MIN or to the Orchard
\* MAX sentinel included.
C24_FusedAgreesWithMapper ==
    (FusedDone /\ op = "from_chain_and_user_nullifiers") =>
        /\ map_orchard_user_positions(chain_nullifiers, user_nullifiers).ok
        /\ ResultMapping = map_orchard_user_positions(chain_nullifiers, user_nullifiers).val

\* A step taken while the orchestrator is cancelled or has returned an error
\* leaves the tasks, the blocking builds and the snapshot files as they are.
TasksStoppedStep ==
    orch_pc \in {"cancelled", "failed"} =>
        /\ UNCHANGED <<task_pc, task_out, blocking, task_files, task_log>>

\* C25: once build_airdrop_configuration is cancelled, or has returned an
\* error, no spawned per-pool task and no blocking tree build takes a further
\* step: no snapshot file is written, no tree is built.
C25_AbortStopsTasks == [][TasksStoppedStep]_vars

\* C26: in every interleaving of the two process_pool tasks, each pool's steps
\* run in the order sanitise, persist snapshot, build tree, compute root; each
\* snapshot file is written by its own pool's task only; the configuration
\* file is written at most once, only after both tasks returned Ok, with the
\* Sapling task's root in sapling_merkle_root and the Orchard task's root in
\* orchard_merkle_root.
C26_TasksKeepOrderAndRoots ==
    orch_pc # "idle" =>
        /\ \A pool \in Pools :
              /\ \E n \in 0..4 :
                    task_log[pool] = SubSeq(<<"sanitise", "persist", "build", "root">>, 1, n)
              /\ task_files[pool] # None => task_files[pool][1].writer = pool
              /\ (task_out[pool] # None /\ task_out[pool][1].ok /\ task_out[pool][1].val # None) =>
                    /\ Len(task_log[pool]) = 4
                    /\ task_files[pool] =
                          Some([writer |-> pool,
                                bytes |-> write_nullifiers(
                                              SanitiseNullifiers_new(task_input[pool]))])
                    /\ task_out[pool][1].val = Some(hex_encode(blocking[pool][2].val))
        /\ Len(task_config) <= 1
        /\ Len(task_config) = 1 =>
              /\ \A pool \in Pools :
                    task_pc[pool] = "done" /\ task_out[pool] # None /\ task_out[pool][1].ok
              /\ task_config[1].sapling_merkle_root = task_out["Sapling"][1].val
              /\ task_config[1].orchard_merkle_root = task_out["Orchard"][1].val

\* C26 witness: the Orchard task returned first, the two roots differ, and the
\* configuration is written.
C26_Witness ==
    /\ orch_pc = "done"
    /\ task_finished = <<"Orchard", "Sapling">>
    /\ Len(task_config) = 1
    /\ task_config[1].sapling_merkle_root # None
    /\ task_config[1].orchard_merkle_root # None
    /\ task_config[1].sapling_merkle_root # task_config[1].orchard_merkle_root

\* The leaf count a header declares: its bytes as a little-endian integer.
RECURSIVE DeclaredCountFrom(_, _)
DeclaredCountFrom(bytes, index) ==
    IF index > SERIALIZED_LEAF_COUNT_BYTES \/ index > Len(bytes) THEN 0
    ELSE (IF bytes[index] = 0 THEN 0 ELSE bytes[index] * Pow(256, index - 1))
         + DeclaredCountFrom(bytes, index + 1)

\* n + ceil(n/2) + ceil(n/4) + ... over the given number of levels.
RECURSIVE SumOfWidths(_, _)
SumOfWidths(n, levels) ==
    IF levels = 0 THEN 0 ELSE n + SumOfWidths((n + 1) \div 2, levels - 1)

WellFormedTreeFile(bytes) ==
    /\ Len(bytes) >= SERIALIZED_LEAF_COUNT_BYTES
    /\ LeafCountSupported(DeclaredCountFrom(bytes, 1))
    /\ Len(bytes) = SERIALIZED_LEAF_COUNT_BYTES
                    + SERIALIZED_NODE_BYTES
                      * SumOfWidths(DeclaredCountFrom(bytes, 1), NON_MEMBERSHIP_TREE_DEPTH + 1)

\* C27: from_bytes returns an error for a byte string shorter than the header,
\* declaring a leaf count outside the supported range, or of a length other
\* than header + node size * (n + ceil(n/2) + ... over all DEPTH + 1 levels);
\* it returns a tree for every other byte string, and the tree's root is the
\* single node of the top level, the last node of the file.
C27_FromBytesChecksLength ==
    restored # None =>
        IF WellFormedTreeFile(bytes_in)
        THEN /\ restored[1].ok
             /\ restored[1].val.leaf_count = DeclaredCountFrom(bytes_in, 1)
             /\ restored[1].val.level_widths[NON_MEMBERSHIP_TREE_DEPTH + 1] = 1
             /\ restored[1].val.root =
                   node_array_from(SubSeq(bytes_in, Len(bytes_in) - SERIALIZED_NODE_BYTES + 1,
                                          Len(bytes_in)))
             /\ restored[1].val.root =
                   restored[1].val.nodes[
                       restored[1].val.level_offsets[NON_MEMBERSHIP_TREE_DEPTH + 1] + 1]
        ELSE ~restored[1].ok

\* C27 witness: a file of the right length for the three leaves it declares.
C27_Witness ==
    /\ restored # None
    /\ restored[1].ok
    /\ restored[1].val.leaf_count = 3
    /\ Len(bytes_in) = SERIALIZED_LEAF_COUNT_BYTES + 6 * SERIALIZED_NODE_BYTES

\* C27 witness: a file of the right length for three leaves that declares two.
C27_WitnessMismatch ==
    /\ restored # None
    /\ ~restored[1].ok
    /\ DeclaredCountFrom(bytes_in, 1) = 2
    /\ Len(bytes_in) = SERIALIZED_LEAF_COUNT_BYTES + 6 * SERIALIZED_NODE_BYTES

\* The nullifiers yielded so far from the file being read.
YieldedFromCurrentFile ==
    SelectSeq(yielded, LAMBDA item : item.ok /\ item.val.pool = PoolOfFile(file_idx))

\* C28: at the start of every iteration of read_nullifiers' loop,
\* leftover < NULLIFIER_SIZE <= buffer length, so the slice handed to the
\* reader is not empty (a read of 0 bytes is the end of the input), any read
\* it can hold keeps leftover + n within the buffer, and the bytes carried
\* over are exactly the input read but not yet emitted.
C28_LoopInvariant ==
    read_pc = "loop" =>
        /\ leftover < NULLIFIER_SIZE
        /\ NULLIFIER_SIZE <= Len(buf)
        /\ Len(buf) - leftover > 0
        /\ \A n \in 1..(Len(buf) - leftover) : leftover + n <= Len(buf)
        /\ leftover <= reader_pos
        /\ SubSeq(buf, 1, leftover) =
              SubSeq(FileAt(file_idx)[1], reader_pos - leftover + 1, reader_pos)
        /\ Len(YieldedFromCurrentFile) * NULLIFIER_SIZE + leftover = reader_pos

\* C28 witness: the loop starts an iteration with a byte carried over into a
\* buffer that was asked to be one byte long, after a nullifier was emitted.
C28_Witness ==
    /\ read_pc = "loop"
    /\ buf_size = 1
    /\ leftover > 0
    /\ reader_pos > NULLIFIER_SIZE

\* The nullifiers the legacy stream has yielded for one pool, in order.
LegacyItemsOf(pool) ==
    LET kept == SelectSeq(legacy_yielded, LAMBDA item : item.pool = pool)
    IN [k \in 1..Len(kept) |-> kept[k].nullifier]

\* C29: the legacy into_nullifiers_stream yields every nullifier of the
\* Sapling file and then of the Orchard file exactly once, unaltered and in
\* file order, however the reads are chunked.
C29_LegacyYieldsEveryNullifier ==
    legacy_pc = "done" =>
        \A idx \in 1..2 :
            Len(legacy_files[idx]) % NULLIFIER_SIZE = 0 =>
                LegacyItemsOf(PoolOfFile(idx)) = Blocks(legacy_files[idx])

\* C30: every NullifierProof listed under a pool carries that pool's variant
\* of the private inputs, and its nullifier, bounds and leaf position are
\* those of a TreePosition of that pool's tree, whatever notes were found,
\* a Sapling and an Orchard note of equal nullifier bytes included.
C30_ProofsKeepTheirPool ==
    \A pool \in Pools :
        proofs_by_pool[pool] # None =>
            \A k \in 1..Len(proofs_by_pool[pool][1]) :
                LET inputs == proofs_by_pool[pool][1][k].private_inputs
                IN /\ inputs.pool = pool
                   /\ \E j \in 1..Len(loaded_positions[pool][1]) :
                         LET tree_position == loaded_positions[pool][1][j]
                         IN /\ inputs.nullifier = tree_position.nullifier
                            /\ inputs.left_nullifier = tree_position.left_bound
                            /\ inputs.right_nullifier = tree_position.right_bound
                            /\ inputs.leaf_position = tree_position.leaf_position

=============================================================================
